---- MODULE Spec2Model ----
(***************************************************************************)
(* Calendar synchronization controller                                     *)
(* (calendar_microservice/src/sync/controller.py) together with the two    *)
(* places that construct controllers: the module-global controller of      *)
(* main.py, driven by the periodic task, and the per-request controller of *)
(* api/sync_router.py.                                                     *)
(*                                                                         *)
(* A task is one top-level invocation of sync_all_calendars or             *)
(* sync_single_source.  A task moves from one await of the coroutine to    *)
(* the next in one step; everything the code does between two awaits is    *)
(* atomic, as it is on a single asyncio event loop.                        *)
(***************************************************************************)
EXTENDS Integers, Sequences, FiniteSets, TLC

(***************************************************************************)
(* Bounds                                                                  *)
(***************************************************************************)
MaxTasks == 2

Tasks == 1..MaxTasks

(***************************************************************************)
(* Values of the program                                                   *)
(***************************************************************************)
\* controller.py:183,187,230: the marker of the global "all sources" unit
SYNC_ALL == "sync_all"

\* Source ids a stored configuration can contain (SyncSource.id is any str,
\* architecture.py:75); "sync_all" is the string the controller also uses
\* as the marker of the global unit.
SourceIds == {"a", "sync_all"}

\* Ids a caller can pass to sync_single_source; the stored configuration
\* need not contain them.
CallIds == SourceIds

\* architecture.py:59-64
SyncMethods == {"api", "agent", "file", "email"}

\* architecture.py:66-71
ConflictResolutions == {"source_wins", "destination_wins", "latest_wins", "manual"}

\* The module-global controller of main.py:267 is controller 0; the
\* controller that get_sync_controller (sync_router.py:28) builds for the
\* request served by task t is controller t.
GlobalController == 0
Controllers == {GlobalController} \cup Tasks

\* Who invokes: the periodic task of main.py (on the global controller), an
\* API request (on the controller built for that request), or a coroutine
\* that holds a reference to the global controller object and calls it
\* directly, concurrently with other callers.
Origins == {"periodic", "api", "direct"}

(***************************************************************************)
(* Normalized events (services/calendar_event.py:56-81)                    *)
(*                                                                         *)
(* A timestamp is None, or an instant together with whether the datetime   *)
(* object carries a timezone (provider timestamps are parsed from          *)
(* "...+00:00" strings and are timezone-aware, calendar_event.py:152-153;  *)
(* events parsed from agent or import payloads carry whatever the payload  *)
(* wrote).  datetime.min is the oldest instant and is timezone-naive.      *)
(***************************************************************************)
MaxTime == 2

TsNone == [t |-> -1, aware |-> FALSE]

DatetimeMin == [t |-> 0, aware |-> FALSE]

Timestamps == {TsNone} \cup [t : 1..MaxTime, aware : BOOLEAN]

MaxEvents == 2

EventIds == 1..MaxEvents

Titles == {"t1", "t2"}

\* id, the fields the destination payload carries (title), the two
\* provider-supplied timestamps and last_synced, which is set when the
\* object is built (calendar_event.py:80).
CalendarEvent == [id : EventIds, title : Titles, created_at : Timestamps,
                  updated_at : Timestamps, last_synced : 1..MaxTime]

\* Python's `x or y` on Optional[datetime]: a datetime is always truthy.
PyOr(x, y) == IF x # TsNone THEN x ELSE y

\* controller.py:512-513
UpdatedOf(ev) == PyOr(ev.updated_at, PyOr(ev.created_at, DatetimeMin))

\* datetime.__gt__: comparing a timezone-aware with a timezone-naive
\* datetime raises TypeError.
GtRaises(x, y) == x.aware # y.aware

Gt(x, y) == x.t > y.t

\* controller.py:497-524.  The result is [raised, event]: raised is TRUE
\* when the comparison of line 515 raises TypeError.
resolve_conflict(source_event, destination_event, resolution_strategy) ==
    IF resolution_strategy = "source_wins"
    THEN [raised |-> FALSE, event |-> source_event]
    ELSE IF resolution_strategy = "destination_wins"
    THEN [raised |-> FALSE, event |-> destination_event]
    ELSE IF resolution_strategy = "latest_wins"
    THEN LET source_updated == UpdatedOf(source_event)
             dest_updated == UpdatedOf(destination_event)
         IN  IF GtRaises(source_updated, dest_updated)
             THEN [raised |-> TRUE, event |-> destination_event]
             ELSE [raised |-> FALSE,
                   event |-> IF Gt(source_updated, dest_updated)
                             THEN source_event ELSE destination_event]
    ELSE IF resolution_strategy = "manual"
    THEN [raised |-> FALSE, event |-> destination_event]
    ELSE [raised |-> FALSE, event |-> source_event]

(***************************************************************************)
(* Configuration documents (sync/architecture.py)                          *)
(***************************************************************************)
\* architecture.py:46-50
SyncDirections == {"read_only", "write_only", "bidirectional"}

\* architecture.py:73-86: the fields of a source the controller reads
SyncSource == [id : SourceIds, enabled : BOOLEAN, sync_method : SyncMethods,
               sync_direction : SyncDirections, last_sync : {"None", "set"},
               sync_tokens : {"None", "T"}]

\* architecture.py:88-97: the attributes a SyncDestination object has.
\* Reading any other attribute of a pydantic model raises AttributeError.
SyncDestinationFields_WithColorManagement ==
    {"id", "name", "provider_type", "connection_info", "credentials",
     "calendar_id", "conflict_resolution", "categories",
     "color_management", "source_calendars"}

SyncDestinationFields ==
    {"id", "name", "provider_type", "connection_info", "credentials",
     "calendar_id", "conflict_resolution", "categories"}

\* calendar_event.py:7-12 and the str field architecture.py:92
ProviderTypes == {"google", "microsoft", "exchange"}

\* controller.py:472,482,538,563,611,638: the destination providers the
\* controller can read from and write to
SupportedDestination(provider_type) == provider_type \in {"google", "microsoft"}

(***************************************************************************)
(* The write phase (controller.py:397-458)                                 *)
(***************************************************************************)
\* A create or update request the controller sends to the destination:
\* its kind, the source being synced and the incoming event's id.
Call(k, src, ev) == [k |-> k, src |-> src, ev |-> ev]

IdsOf(evs) == {e.id : e \in evs}

\* controller.py:460-495: the snapshot of the destination's events; a
\* failed fetch is logged and yields no events, and so does a destination
\* provider the controller has no branch for.
get_existing_events(destination, store, fetchOk) ==
    IF SupportedDestination(destination.provider_type) /\ fetchOk
    THEN store ELSE {}

\* The destination assigns the id of an event created in it: the payload
\* of controller.py:540-556 and 565-583 carries no id.
FreshId(store) ==
    LET used == IdsOf(store) \cup EventIds
    IN  CHOOSE n \in 1..(Cardinality(used) + 1) :
            n \notin used /\ \A m \in 1..(n - 1) : m \in used

\* What an insert of `event` leaves in the destination calendar.
Created(event, store) ==
    [event EXCEPT !.id = FreshId(store),
                  !.created_at = [t |-> MaxTime, aware |-> TRUE],
                  !.updated_at = [t |-> MaxTime, aware |-> TRUE]]

\* What an update with `event`'s payload leaves of the destination's event.
Updated(event, existing) ==
    [existing EXCEPT !.title = event.title,
                     !.updated_at = [t |-> MaxTime, aware |-> TRUE]]

\* controller.py:422-456: one iteration of the loop over the batch.
\* acc = [success_count, failure_count, errors, calls, store]; okCalls is
\* the set of batch positions whose create or update request succeeds.
ProcessEvent(i, event, existing_events, destination, source, okCalls, acc) ==
    IF source.sync_direction = "write_only"
    THEN acc
    ELSE IF event.id \in IdsOf(existing_events)
    THEN LET existing_event == CHOOSE e \in existing_events : e.id = event.id
             resolved == resolve_conflict(event, existing_event,
                                          destination.conflict_resolution)
         IN  IF resolved.raised
             THEN [acc EXCEPT !.errors = Append(@, event.id),
                              !.failure_count = @ + 1]
             ELSE IF resolved.event # existing_event
             THEN IF ~SupportedDestination(destination.provider_type)
                  THEN [acc EXCEPT !.failure_count = @ + 1]
                  ELSE IF i \in okCalls
                  THEN [acc EXCEPT
                          !.calls = Append(@, Call("update", source.id, event.id)),
                          !.success_count = @ + 1,
                          !.store = (@ \ {e \in @ : e.id = event.id})
                                    \cup {Updated(resolved.event, e) :
                                            e \in {x \in @ : x.id = event.id}}]
                  ELSE [acc EXCEPT
                          !.calls = Append(@, Call("update", source.id, event.id)),
                          !.failure_count = @ + 1]
             ELSE acc
    ELSE IF ~SupportedDestination(destination.provider_type)
    THEN [acc EXCEPT !.failure_count = @ + 1]
    ELSE IF i \in okCalls
    THEN [acc EXCEPT !.calls = Append(@, Call("create", source.id, event.id)),
                     !.success_count = @ + 1,
                     !.store = @ \cup {Created(event, @)}]
    ELSE [acc EXCEPT !.calls = Append(@, Call("create", source.id, event.id)),
                     !.failure_count = @ + 1]

RECURSIVE WriteLoop(_, _, _, _, _, _, _)
WriteLoop(i, events, existing_events, destination, source, okCalls, acc) ==
    IF i > Len(events)
    THEN acc
    ELSE WriteLoop(i + 1, events, existing_events, destination, source, okCalls,
                   ProcessEvent(i, events[i], existing_events, destination,
                                source, okCalls, acc))

\* controller.py:397-458.  Line 412 reads destination.color_management
\* before anything else is done: when SyncDestination has no such
\* attribute the read raises AttributeError, outside the per-event try, and
\* the write phase ends there with no request issued.  Otherwise the
\* existing events are fetched once and the batch is processed against
\* that snapshot.  The result is [raised, success_count, failure_count,
\* errors, calls, store].
write_events_to_destination_NoConflictCheck(events, destination, source, store, fetchOk, okCalls) ==
    LET acc0 == [success_count |-> 0, failure_count |-> 0, errors |-> << >>,
                 calls |-> << >>, store |-> store]
        acc == WriteLoop(1, events, {}, destination, source, okCalls, acc0)
    IN  [raised |-> FALSE, success_count |-> acc.success_count,
         failure_count |-> acc.failure_count, errors |-> acc.errors,
         calls |-> acc.calls, store |-> acc.store]

write_events_to_destination(events, destination, source, store, fetchOk, okCalls) ==
    IF "color_management" \notin SyncDestinationFields
    THEN [raised |-> TRUE, success_count |-> 0, failure_count |-> 0,
          errors |-> << >>, calls |-> << >>, store |-> store]
    ELSE LET existing_events == get_existing_events(destination, store, fetchOk)
             acc0 == [success_count |-> 0, failure_count |-> 0, errors |-> << >>,
                      calls |-> << >>, store |-> store]
             acc == WriteLoop(1, events, existing_events, destination, source,
                              okCalls, acc0)
         IN  [raised |-> FALSE, success_count |-> acc.success_count,
              failure_count |-> acc.failure_count, errors |-> acc.errors,
              calls |-> acc.calls, store |-> acc.store]

(***************************************************************************)
(* State                                                                   *)
(***************************************************************************)
VARIABLES
    backend,       \* the storage backend in use: "redis" or "file" (storage.py:26-50)
    config,        \* the stored configuration document (sync:configuration)
    store,         \* the events the destination calendar holds
    feed,          \* the events an acquisition returns (provider, agent cache, import)
    active_syncs,  \* controller -> its set of active-sync markers (controller.py:35)
    pc,            \* task -> the await the task is suspended at
    op,            \* task -> the top-level operation it invoked
    origin,        \* task -> who invoked it
    ctrl,          \* task -> the controller object it runs on
    cur,           \* task -> source id of the sync_single_source frame it is in
    nested,        \* task -> that frame was entered from sync_all_calendars
    cfg,           \* task -> the sources sync_all_calendars loaded (controller.py:190)
    loaded,        \* task -> the source and destination sync_single_source loaded
    idx,           \* task -> position of sync_all_calendars in cfg
    delegated,     \* task -> what each delegated sync_single_source gave back
    result,        \* task -> how the top-level operation ended
    effects,       \* task -> the kinds of storage and provider calls it made
    log,           \* task -> the create and update requests it sent to the destination
    probe,         \* inputs and output of a direct application of the write loop
    db,            \* backend -> what a storage manager on that backend holds
    clock,         \* the current time, in seconds
    ret            \* backend -> what the last storage or agent operation gave back

vars == <<backend, config, store, feed, active_syncs, pc, op, origin, ctrl, cur,
          nested, cfg, loaded, idx, delegated, result, effects, log, probe,
          db, clock, ret>>

\* What no action of the controller changes.
env == <<backend, feed, probe, db, clock, ret>>

NoOp == [kind |-> "none", id |-> ""]

NoProbe == [phase |-> "off"]

\* The pcs at which a task is suspended inside a sync_single_source frame,
\* and inside sync_all_calendars itself.
SinglePcs == {"s_load", "s_fetch", "s_upd_load", "s_upd_save", "s_save"}

AllPcs == {"a_load", "a_save"}

\* The task is inside a sync_single_source frame that got past the guard.
InSingle(t) == pc[t] \in SinglePcs

\* The task is inside a sync_all_calendars frame that got past the guard.
InAll(t) == op[t].kind = "all" /\ pc[t] \in AllPcs \cup SinglePcs

(***************************************************************************)
(* Guards (controller.py:183 and 236)                                      *)
(***************************************************************************)
AllGuard_Never(c) == FALSE

AllGuard(c) == SYNC_ALL \in active_syncs[c]

SingleGuard_Never(active, source_id) == FALSE

SingleGuard(active, source_id) == source_id \in active

\* The controller object each entry point calls: main.py:221-223 uses the
\* module-global controller; every request of sync_router.py gets the
\* controller get_sync_controller builds for it (sync_router.py:24-32).
ControllerOf(t, o) == IF o = "api" THEN t ELSE GlobalController

\* main.py:210-237 is one task that awaits each sync before the next.
PeriodicFree == \A u \in Tasks : origin[u] = "periodic" => pc[u] \in {"init", "done"}

(***************************************************************************)
(* sync_all_calendars: the loop over the loaded sources                    *)
(* (controller.py:207-219) from position i up to the next await.           *)
(* A disabled source is skipped; an enabled source whose marker is in the  *)
(* active set is answered "in_progress" by sync_single_source without an   *)
(* await; the scan stops at the first enabled source that gets past the    *)
(* guard, or at the end of the list.  dl records, per delegated call, the  *)
(* source id and what the call gave back.                                  *)
(***************************************************************************)
RECURSIVE LoopScan_HandsDisabled(_, _, _, _)
LoopScan_HandsDisabled(i, sources, active, dl) ==
    IF i > Len(sources)
    THEN [stop |-> "end", idx |-> i, id |-> "", dl |-> dl]
    ELSE IF SingleGuard(active, sources[i].id)
    THEN LoopScan_HandsDisabled(i + 1, sources, active,
                  Append(dl, [id |-> sources[i].id, res |-> "in_progress"]))
    ELSE [stop |-> "delegate", idx |-> i, id |-> sources[i].id, dl |-> dl]

RECURSIVE LoopScan_DropsInProgress(_, _, _, _)
LoopScan_DropsInProgress(i, sources, active, dl) ==
    IF i > Len(sources)
    THEN [stop |-> "end", idx |-> i, id |-> "", dl |-> dl]
    ELSE IF ~sources[i].enabled
    THEN LoopScan_DropsInProgress(i + 1, sources, active, dl)
    ELSE IF SingleGuard(active, sources[i].id)
    THEN LoopScan_DropsInProgress(i + 1, sources, active, dl)
    ELSE [stop |-> "delegate", idx |-> i, id |-> sources[i].id, dl |-> dl]

RECURSIVE LoopScan(_, _, _, _)
LoopScan(i, sources, active, dl) ==
    IF i > Len(sources)
    THEN [stop |-> "end", idx |-> i, id |-> "", dl |-> dl]
    ELSE IF ~sources[i].enabled
    THEN LoopScan(i + 1, sources, active, dl)
    ELSE IF SingleGuard(active, sources[i].id)
    THEN LoopScan(i + 1, sources, active,
                  Append(dl, [id |-> sources[i].id, res |-> "in_progress"]))
    ELSE [stop |-> "delegate", idx |-> i, id |-> sources[i].id, dl |-> dl]

\* controller.py:214: a delegated call that returned is counted as synced.
SourcesSynced(dl) == Cardinality({i \in 1..Len(dl) : dl[i].res # "raised"})

\* controller.py:216-219: a delegated call that raised adds an error string.
ErrorCount(dl) == Cardinality({i \in 1..Len(dl) : dl[i].res = "raised"})

\* Continue sync_all_calendars of task t at position i with active set
\* `active` (of t's controller) and delegation record dl.
ContinueAll(t, i, sources, active, dl) ==
    LET sc == LoopScan(i, sources, active, dl)
    IN  /\ delegated' = [delegated EXCEPT ![t] = sc.dl]
        /\ idx' = [idx EXCEPT ![t] = sc.idx]
        /\ IF sc.stop = "delegate"
           THEN /\ active_syncs' = [active_syncs EXCEPT ![ctrl[t]] = active \cup {sc.id}]
                /\ cur' = [cur EXCEPT ![t] = sc.id]
                /\ nested' = [nested EXCEPT ![t] = TRUE]
                /\ pc' = [pc EXCEPT ![t] = "s_load"]
           ELSE /\ active_syncs' = [active_syncs EXCEPT ![ctrl[t]] = active]
                /\ cur' = [cur EXCEPT ![t] = ""]
                /\ nested' = [nested EXCEPT ![t] = FALSE]
                /\ pc' = [pc EXCEPT ![t] = "a_save"]

\* The sync_single_source frame of task t ends with `res` ("completed",
\* "skipped" or "raised"): the finally of controller.py:305-306 removes the
\* marker; a frame entered from sync_all_calendars hands control back to
\* the loop (an exception is caught at controller.py:216-219).
FinishSingle_Propagates(t, res) ==
    LET active == active_syncs[ctrl[t]] \ {cur[t]}
    IN  IF nested[t] /\ res # "raised"
        THEN /\ ContinueAll(t, idx[t] + 1, cfg[t], active,
                            Append(delegated[t], [id |-> cur[t], res |-> res]))
             /\ UNCHANGED result
        ELSE /\ active_syncs' = [active_syncs EXCEPT ![ctrl[t]] =
                                   active \ (IF nested[t] THEN {SYNC_ALL} ELSE {})]
             /\ pc' = [pc EXCEPT ![t] = "done"]
             /\ result' = [result EXCEPT ![t] = res]
             /\ cur' = [cur EXCEPT ![t] = ""]
             /\ UNCHANGED <<nested, idx, delegated>>

FinishSingle(t, res) ==
    LET active == active_syncs[ctrl[t]] \ {cur[t]}
    IN  IF nested[t]
        THEN /\ ContinueAll(t, idx[t] + 1, cfg[t], active,
                            Append(delegated[t], [id |-> cur[t], res |-> res]))
             /\ UNCHANGED result
        ELSE /\ active_syncs' = [active_syncs EXCEPT ![ctrl[t]] = active]
             /\ pc' = [pc EXCEPT ![t] = "done"]
             /\ result' = [result EXCEPT ![t] = res]
             /\ cur' = [cur EXCEPT ![t] = ""]
             /\ UNCHANGED <<nested, idx, delegated>>

\* sync_all_calendars of task t ends with `res`: the finally of
\* controller.py:229-230 removes the marker of the global unit.
FinishAll_RemovesOnReturnOnly(t, res) ==
    /\ active_syncs' = [active_syncs EXCEPT ![ctrl[t]] =
                          IF res = "completed" THEN @ \ {SYNC_ALL} ELSE @]
    /\ pc' = [pc EXCEPT ![t] = "done"]
    /\ result' = [result EXCEPT ![t] = res]
    /\ UNCHANGED <<cur, nested, idx, delegated>>

FinishAll(t, res) ==
    /\ active_syncs' = [active_syncs EXCEPT ![ctrl[t]] = @ \ {SYNC_ALL}]
    /\ pc' = [pc EXCEPT ![t] = "done"]
    /\ result' = [result EXCEPT ![t] = res]
    /\ UNCHANGED <<cur, nested, idx, delegated>>

\* Task t issues a storage or provider call of kind k ("write_phase":
\* it calls _write_events_to_destination).
Did(t, k) == effects' = [effects EXCEPT ![t] = @ \cup {k}]

\* controller.py:37-43: load_configuration raises ValueError when nothing is
\* stored; parse_obj raises when the stored document has no destination,
\* a required field (architecture.py:118).
Loadable_WithoutDestination(c) == c.present

Loadable(c) == c.present /\ c.destination.provider_type # "none"

(***************************************************************************)
(* Entry points                                                            *)
(***************************************************************************)
\* controller.py:179-190: the guard, and the marker added before the first
\* await (load_configuration).
CallSyncAll(t, o) ==
    /\ pc[t] = "init"
    /\ o = "periodic" => PeriodicFree
    /\ LET c == ControllerOf(t, o)
       IN  /\ op' = [op EXCEPT ![t] = [kind |-> "all", id |-> ""]]
           /\ origin' = [origin EXCEPT ![t] = o]
           /\ ctrl' = [ctrl EXCEPT ![t] = c]
           /\ IF AllGuard(c)
              THEN /\ result' = [result EXCEPT ![t] = "in_progress"]
                   /\ pc' = [pc EXCEPT ![t] = "done"]
                   /\ UNCHANGED active_syncs
              ELSE /\ active_syncs' = [active_syncs EXCEPT ![c] = @ \cup {SYNC_ALL}]
                   /\ pc' = [pc EXCEPT ![t] = "a_load"]
                   /\ UNCHANGED result
    /\ UNCHANGED <<env, config, store, cur, nested, cfg, loaded, idx, delegated,
                   effects, log>>

\* controller.py:232-243, called from sync_router.py:231 or 256 or by a
\* holder of the controller.
CallSyncSingle(t, o, source_id) ==
    /\ pc[t] = "init"
    /\ o # "periodic"
    /\ LET c == ControllerOf(t, o)
       IN  /\ op' = [op EXCEPT ![t] = [kind |-> "single", id |-> source_id]]
           /\ origin' = [origin EXCEPT ![t] = o]
           /\ ctrl' = [ctrl EXCEPT ![t] = c]
           /\ IF SingleGuard(active_syncs[c], source_id)
              THEN /\ result' = [result EXCEPT ![t] = "in_progress"]
                   /\ pc' = [pc EXCEPT ![t] = "done"]
                   /\ UNCHANGED <<active_syncs, cur>>
              ELSE /\ active_syncs' = [active_syncs EXCEPT ![c] = @ \cup {source_id}]
                   /\ cur' = [cur EXCEPT ![t] = source_id]
                   /\ pc' = [pc EXCEPT ![t] = "s_load"]
                   /\ UNCHANGED result
    /\ UNCHANGED <<env, config, store, nested, cfg, loaded, idx, delegated,
                   effects, log>>

(***************************************************************************)
(* sync_all_calendars                                                      *)
(***************************************************************************)
\* controller.py:190-213: load_configuration returns or raises (no stored
\* configuration, storage failure); on success the loop runs up to the
\* first delegated sync_single_source that awaits.
AllLoad(t) ==
    /\ pc[t] = "a_load"
    /\ Did(t, "load_config")
    /\ \E ok \in BOOLEAN :
         IF ok /\ Loadable(config)
         THEN /\ cfg' = [cfg EXCEPT ![t] = config.sources]
              /\ ContinueAll(t, 1, config.sources, active_syncs[ctrl[t]], << >>)
              /\ UNCHANGED result
         ELSE /\ FinishAll(t, "raised")
              /\ UNCHANGED cfg
    /\ UNCHANGED <<env, config, store, op, origin, ctrl, loaded, log>>

\* controller.py:221-230: save_sync_result, then return.
AllSave(t) ==
    /\ pc[t] = "a_save"
    /\ Did(t, "global_history")
    /\ \E ok \in BOOLEAN : FinishAll(t, IF ok THEN "completed" ELSE "raised")
    /\ UNCHANGED <<env, config, store, op, origin, ctrl, cfg, loaded, log>>

(***************************************************************************)
(* sync_single_source                                                      *)
(***************************************************************************)
\* controller.py:251: a disabled source is not synced.
IsDisabled_Never(source) == FALSE

IsDisabled(source) == ~source.enabled

FindSource(sources, source_id) ==
    LET hits == {i \in 1..Len(sources) : sources[i].id = source_id}
    IN  IF hits = {} THEN 0 ELSE CHOOSE i \in hits : \A j \in hits : i <= j

\* controller.py:243-256: load_configuration returns or raises; the source
\* is looked up; a disabled source returns "skipped".
SingleLoad(t) ==
    /\ pc[t] = "s_load"
    /\ Did(t, "load_config")
    /\ \E ok \in BOOLEAN :
         LET i == FindSource(config.sources, cur[t])
         IN  IF ~(ok /\ Loadable(config))
             THEN FinishSingle(t, "raised") /\ UNCHANGED loaded
             ELSE IF i = 0
             THEN FinishSingle(t, "raised") /\ UNCHANGED loaded
             ELSE IF IsDisabled(config.sources[i])
             THEN FinishSingle(t, "skipped") /\ UNCHANGED loaded
             ELSE /\ loaded' = [loaded EXCEPT ![t] =
                                  [source |-> config.sources[i],
                                   destination |-> config.destination]]
                  /\ pc' = [pc EXCEPT ![t] = "s_fetch"]
                  /\ UNCHANGED <<active_syncs, cur, nested, idx, delegated, result>>
    /\ UNCHANGED <<env, config, store, op, origin, ctrl, cfg, log>>

\* The call that acquires the events (controller.py:270-280).
AcquireCall(source) ==
    IF source.sync_method = "api" THEN "fetch"
    ELSE IF source.sync_method = "agent" THEN "agent_events"
    ELSE "import_data"

\* controller.py:269-287: the events are acquired (a failing provider
\* fetch is caught per calendar and yields no events, controller.py:334
\* and 355; a failing storage read raises), and a non-empty batch goes
\* through the write phase before the next await of this frame.  A
\* successful provider fetch returns a continuation token, which
\* controller.py:332-333 puts into the sync_tokens of the source object
\* this frame loaded.
SingleAcquire(t) ==
    /\ pc[t] = "s_fetch"
    /\ \E ok \in BOOLEAN, fetchOk \in BOOLEAN, okCalls \in SUBSET (1..Len(feed)) :
         LET source == loaded[t].source
             events == IF ok THEN feed ELSE << >>
             w == write_events_to_destination(events, loaded[t].destination,
                                              source, store, fetchOk, okCalls)
         IN  /\ loaded' = [loaded EXCEPT ![t].source.sync_tokens =
                            IF ok /\ source.sync_method = "api" THEN "T" ELSE @]
             /\ IF ~ok /\ source.sync_method # "api"
                THEN /\ FinishSingle(t, "raised")
                     /\ Did(t, AcquireCall(source))
                     /\ UNCHANGED <<store, log>>
                ELSE IF events = << >>
                THEN /\ pc' = [pc EXCEPT ![t] = "s_upd_load"]
                     /\ Did(t, AcquireCall(source))
                     /\ UNCHANGED <<store, log, active_syncs, cur, nested, idx,
                                    delegated, result>>
                ELSE IF w.raised
                THEN /\ FinishSingle(t, "raised")
                     /\ effects' = [effects EXCEPT ![t] =
                                      @ \cup {AcquireCall(source), "write_phase"}]
                     /\ log' = [log EXCEPT ![t] = @ \o w.calls]
                     /\ UNCHANGED store
                ELSE /\ effects' = [effects EXCEPT ![t] =
                                      @ \cup {AcquireCall(source), "write_phase",
                                              "get_existing"}]
                     /\ log' = [log EXCEPT ![t] = @ \o w.calls]
                     /\ store' = w.store
                     /\ pc' = [pc EXCEPT ![t] = "s_upd_load"]
                     /\ UNCHANGED <<active_syncs, cur, nested, idx, delegated, result>>
    /\ UNCHANGED <<env, config, op, origin, ctrl, cfg>>

\* controller.py:291 -> 65-83: update_sync_source loads the configuration
\* again and looks the source up.
SingleUpdLoad(t) ==
    /\ pc[t] = "s_upd_load"
    /\ Did(t, "load_config")
    /\ \E ok \in BOOLEAN :
         IF ok /\ Loadable(config) /\ FindSource(config.sources, cur[t]) # 0
         THEN /\ pc' = [pc EXCEPT ![t] = "s_upd_save"]
              /\ UNCHANGED <<active_syncs, cur, nested, idx, delegated, result>>
         ELSE FinishSingle(t, "raised")
    /\ UNCHANGED <<env, config, store, op, origin, ctrl, cfg, loaded, log>>

\* The variant that writes the source object the run holds, with the
\* continuation token it received.
SingleUpdSave_WritesLoaded(t) ==
    /\ pc[t] = "s_upd_save"
    /\ Did(t, "save_config")
    /\ \E ok \in BOOLEAN :
         LET i == FindSource(config.sources, cur[t])
         IN  IF ok /\ backend = "file" /\ i # 0
             THEN /\ config' = [config EXCEPT !.sources[i] =
                                  [loaded[t].source EXCEPT !.last_sync = "set"]]
                  /\ pc' = [pc EXCEPT ![t] = "s_save"]
                  /\ UNCHANGED <<active_syncs, cur, nested, idx, delegated, result>>
             ELSE FinishSingle(t, "raised") /\ UNCHANGED config
    /\ UNCHANGED <<env, store, op, origin, ctrl, cfg, loaded, log>>

\* controller.py:77 -> storage.py:69-76: the document with last_sync set is
\* written.  The redis branch serializes with json.dumps and no default,
\* which raises TypeError on the datetime; the file branch writes it with
\* default=str.
SingleUpdSave(t) ==
    /\ pc[t] = "s_upd_save"
    /\ Did(t, "save_config")
    /\ \E ok \in BOOLEAN :
         LET i == FindSource(config.sources, cur[t])
         IN  IF ok /\ backend = "file" /\ i # 0
             THEN /\ config' = [config EXCEPT !.sources[i].last_sync = "set"]
                  /\ pc' = [pc EXCEPT ![t] = "s_save"]
                  /\ UNCHANGED <<active_syncs, cur, nested, idx, delegated, result>>
             ELSE FinishSingle(t, "raised") /\ UNCHANGED config
    /\ UNCHANGED <<env, store, op, origin, ctrl, cfg, loaded, log>>

\* controller.py:294-299: save_source_sync_result, then return.
SingleSave(t) ==
    /\ pc[t] = "s_save"
    /\ Did(t, "source_history")
    /\ \E ok \in BOOLEAN : FinishSingle(t, IF ok THEN "completed" ELSE "raised")
    /\ UNCHANGED <<env, config, store, op, origin, ctrl, cfg, loaded, log>>

\* asyncio cancellation delivered at the await the task is suspended at:
\* CancelledError is no Exception, so it passes controller.py:216 and
\* 301; every finally on the way out removes its marker.
Cancel(t) ==
    /\ pc[t] \in SinglePcs \cup AllPcs
    /\ active_syncs' = [active_syncs EXCEPT ![ctrl[t]] =
                          (@ \ (IF InSingle(t) THEN {cur[t]} ELSE {}))
                             \ (IF op[t].kind = "all" THEN {SYNC_ALL} ELSE {})]
    /\ pc' = [pc EXCEPT ![t] = "done"]
    /\ result' = [result EXCEPT ![t] = "cancelled"]
    /\ UNCHANGED <<env, config, store, op, origin, ctrl, cur, nested, cfg, loaded,
                   idx, delegated, effects, log>>

(***************************************************************************)
(* Storage manager (sync/storage.py), one per backend.  An optional value  *)
(* is a sequence of length 0 (None, missing key, missing file) or 1.       *)
(***************************************************************************)
\* storage.py:28,38-50: the networked backend and the file backend
Backends == {"redis", "file"}

MaxSeconds == 1

MaxPeriods == 1

MaxHistory == 2

\* storage.py:95,118: the expiry set on agent-event and import keys
ExpireSeconds == 86400

\* storage.py:139 and 176
HistoryCapGlobal == 100

HistoryCapSource == 50

\* Ids of agents and of sources.
Ids == {"a", "b"}

\* storage.py:81,84 and 104,107: the cache keys and files
CacheKeys == {<<"agent", "a">>, <<"agent", "b">>, <<"import", "a">>}

\* Lists of event dicts as they arrive decoded from JSON.
DataVals == {"d1", "d2"}

\* What a get gives back for a missing key or file (storage.py:82,88).
EmptyList == "[]"

\* The scopes of result records: the global one and source "a".
Scopes == {"global", "a"}

HistoryCap(scope) == IF scope = "global" THEN HistoryCapGlobal ELSE HistoryCapSource

EmptyContent ==
    [cfg |-> << >>,
     cache |-> [k \in CacheKeys |-> << >>],
     latest |-> [sc \in Scopes |-> << >>],
     history |-> [sc \in Scopes |-> << >>]]

StorageInit ==
    /\ db = [b \in Backends |-> EmptyContent]
    /\ clock = 0
    /\ ret = [b \in Backends |-> [op |-> "none"]]

\* storage.py:90-99 and 113-122: redis sets the key and its expiry; the
\* file backend writes the file.
save_cache(b, c, key, data, now) ==
    [c EXCEPT !.cache[key] =
        <<[val |-> data, set_at |-> IF b = "redis" THEN now ELSE 0]>>]

\* storage.py:78-88 and 101-111: a redis key is gone once its expiry has
\* elapsed; a file stays.
get_cache(b, c, key, now) ==
    IF c.cache[key] = << >> THEN EmptyList
    ELSE IF b = "redis" /\ now - c.cache[key][1].set_at >= ExpireSeconds
    THEN EmptyList
    ELSE c.cache[key][1].val

\* storage.py:124-159 and 161-196.  The timestamp has the resolution of a
\* second (126, 163).  redis pushes an entry at the head of the list and
\* trims the list to the cap; the file backend writes the file
\* sync_<timestamp>.json, replacing a file of that name, and removes the
\* files that sort before the last `cap` ones.  The history is kept here
\* newest first for redis and sorted by file name for the file backend.
save_result(b, c, scope, record, now) ==
    LET h == c.history[scope]
        cap == HistoryCap(scope)
        entry == [timestamp |-> now, result |-> record]
        pushed == <<entry>> \o h
        written == IF h # << >> /\ h[Len(h)].timestamp = now
                   THEN [h EXCEPT ![Len(h)] = entry]
                   ELSE Append(h, entry)
    IN  [c EXCEPT
           !.latest[scope] = <<record>>,
           !.history[scope] =
               IF b = "redis"
               THEN IF Len(pushed) > cap THEN SubSeq(pushed, 1, cap) ELSE pushed
               ELSE IF Len(written) > cap
                    THEN SubSeq(written, Len(written) - cap + 1, Len(written))
                    ELSE written]

\* storage.py:198-220
get_latest(b, c, scope) == c.latest[scope]

\* A timestamp field of a configuration document: None, a datetime object,
\* or the text json.dump(..., default=str) writes for a datetime.
NoneTime == [kind |-> "none", at |-> 0]

DateTime(n) == [kind |-> "datetime", at |-> n]

\* str(datetime) (storage.py:76, default=str)
TimeStr(ts) == IF ts.kind = "datetime" THEN [kind |-> "str", at |-> ts.at] ELSE ts

\* pydantic's parsing of an Optional[datetime] field (architecture.py:84,
\* 112): the text of a datetime is read back as that datetime.
ParseTime(ts) == IF ts.kind = "str" THEN [kind |-> "datetime", at |-> ts.at] ELSE ts

\* SyncConfiguration.dict() (controller.py:47) of a configuration with one
\* source of sync_method agent and the one agent that serves it
\* (architecture.py:73-86, 100-114): the ids and the two timestamp fields.
ConfigDocs ==
    [source : [id : Ids, last_sync : {NoneTime, DateTime(0)}],
     agent : [id : Ids, last_check_in : {NoneTime, DateTime(0)}]]

HasDatetime(doc) ==
    \/ doc.source.last_sync.kind = "datetime"
    \/ doc.agent.last_check_in.kind = "datetime"

\* json.dump(config, f, indent=2, default=str) (storage.py:76)
DumpDefaultStr(doc) ==
    [doc EXCEPT !.source.last_sync = TimeStr(@),
                !.agent.last_check_in = TimeStr(@)]

\* SyncConfiguration.parse_obj (controller.py:43)
parse_obj(doc) ==
    [doc EXCEPT !.source.last_sync = ParseTime(@),
                !.agent.last_check_in = ParseTime(@)]

\* storage.py:69-76.  json.dumps(config) on the redis branch has no
\* default and raises TypeError on a datetime; nothing is stored then.
save_sync_configuration(b, c, doc) ==
    IF b = "redis"
    THEN IF HasDatetime(doc)
         THEN [status |-> "TypeError", c |-> c]
         ELSE [status |-> "ok", c |-> [c EXCEPT !.cfg = <<doc>>]]
    ELSE [status |-> "ok", c |-> [c EXCEPT !.cfg = <<DumpDefaultStr(doc)>>]]

\* storage.py:57-67
get_sync_configuration(b, c) == c.cfg

\* controller.py:37-43
load_configuration(b, c) ==
    LET config_data == get_sync_configuration(b, c)
    IN  IF config_data = << >>
        THEN [status |-> "ValueError", value |-> << >>]
        ELSE [status |-> "ok", value |-> <<parse_obj(config_data[1])>>]

\* A heartbeat payload without an events field (remote_agent.py:178-188).
NoEvents == "no_events"

\* controller.py:713-745.  The events are cached under the agent's id
\* (731) before the configuration is saved (738).
register_agent_heartbeat(b, c, agent_id, data, now) ==
    LET ld == load_configuration(b, c)
    IN  IF ld.status # "ok" THEN [status |-> ld.status, c |-> c]
        ELSE IF ld.value[1].agent.id # agent_id
        THEN [status |-> "not_found", c |-> c]
        ELSE LET stamped == [ld.value[1] EXCEPT
                                !.agent.last_check_in = DateTime(now)]
                 c1 == IF data # NoEvents
                       THEN save_cache(b, c, <<"agent", agent_id>>, data, now)
                       ELSE c
             IN  save_sync_configuration(b, c1, stamped)

\* controller.py:361-376: the cache is read under the source's id.  The
\* list is taken as a whole; an entry that does not parse is dropped
\* (368-374), which the lists of DataVals have none of.
get_events_from_agent_cache(b, c, source_id, now) ==
    get_cache(b, c, <<"agent", source_id>>, now)

(***************************************************************************)
(* Initial states and specifications                                       *)
(***************************************************************************)
\* Lists of sources with pairwise different ids (add_sync_source rejects a
\* duplicate id, controller.py:54).
RECURSIVE SourceLists(_)
SourceLists(ids) ==
    {<< >>} \cup
    UNION {{<<s>> \o rest : rest \in SourceLists(ids \ {s.id})} :
             s \in {x \in SyncSource : x.id \in ids}}

NoConfig == [present |-> FALSE, sources |-> << >>,
             destination |-> [provider_type |-> "google",
                              conflict_resolution |-> "latest_wins"]]

Destinations == [provider_type : ProviderTypes, conflict_resolution : ConflictResolutions]

TaskInit ==
    /\ active_syncs = [c \in Controllers |-> {}]
    /\ pc = [t \in Tasks |-> "init"]
    /\ op = [t \in Tasks |-> NoOp]
    /\ origin = [t \in Tasks |-> "none"]
    /\ ctrl = [t \in Tasks |-> GlobalController]
    /\ cur = [t \in Tasks |-> ""]
    /\ nested = [t \in Tasks |-> FALSE]
    /\ cfg = [t \in Tasks |-> << >>]
    /\ loaded = [t \in Tasks |-> [source |-> CHOOSE s \in SyncSource : TRUE,
                                  destination |-> NoConfig.destination]]
    /\ idx = [t \in Tasks |-> 0]
    /\ delegated = [t \in Tasks |-> << >>]
    /\ result = [t \in Tasks |-> "none"]
    /\ effects = [t \in Tasks |-> {}]
    /\ log = [t \in Tasks |-> << >>]
    /\ StorageInit

\* An event as a provider returns it.
Ev(id, title, updated) ==
    [id |-> id, title |-> title, created_at |-> [t |-> 1, aware |-> TRUE],
     updated_at |-> updated, last_synced |-> 1]

\* Stored configurations with at most one configured source (or no
\* configuration document at all), the source freshly added: never synced,
\* read_only (the default of architecture.py:80).
OneSourceConfigs ==
    {NoConfig} \cup
    {[present |-> TRUE, sources |-> ss, destination |-> NoConfig.destination] :
       ss \in UNION {{x \in SourceLists({id}) :
                        \A i \in 1..Len(x) : /\ x[i].sync_direction = "read_only"
                                             /\ x[i].last_sync = "None"
                                             /\ x[i].sync_tokens = "None"
                                             /\ x[i].sync_method \in {"api", "agent"}} :
                     id \in SourceIds}}

\* One controller object shared by concurrent callers: either backend, an
\* empty destination calendar, and acquisitions that return no event or
\* one event.
Init ==
    /\ TaskInit
    /\ probe = NoProbe
    /\ backend \in {"redis", "file"}
    /\ config \in OneSourceConfigs
    /\ store = {}
    /\ feed \in {<< >>, <<Ev(1, "t1", [t |-> 1, aware |-> TRUE])>>}

StepSingle(t) ==
    \/ SingleLoad(t)
    \/ SingleAcquire(t)
    \/ SingleUpdLoad(t)
    \/ SingleUpdSave(t)
    \/ SingleSave(t)
    \/ Cancel(t)

Next ==
    \E t \in Tasks :
        \/ CallSyncAll(t, "direct")
        \/ \E source_id \in CallIds : CallSyncSingle(t, "direct", source_id)
        \/ AllLoad(t)
        \/ AllSave(t)
        \/ StepSingle(t)

Spec == Init /\ [][Next]_vars

\* The assembled service: the periodic task of main.py on the module-global
\* controller, and API requests, each on the controller built for it.
NextProcess ==
    \E t \in Tasks :
        \/ CallSyncAll(t, "periodic")
        \/ CallSyncAll(t, "api")
        \/ \E source_id \in CallIds : CallSyncSingle(t, "api", source_id)
        \/ AllLoad(t)
        \/ AllSave(t)
        \/ StepSingle(t)

SpecProcess == Init /\ [][NextProcess]_vars

(***************************************************************************)
(* Runs of sync_single_source in succession, over one configured source    *)
(* with any sync_method and any destination, with events at the provider   *)
(* and at the destination.                                                 *)
(***************************************************************************)
Aware(n) == [t |-> n, aware |-> TRUE]

Feeds ==
    {<< >>,
     <<Ev(1, "t1", Aware(1))>>,
     <<Ev(1, "t2", Aware(MaxTime))>>,
     <<Ev(1, "t1", TsNone)>>,
     <<Ev(1, "t1", Aware(1)), Ev(MaxEvents, "t1", Aware(1))>>}

Stores ==
    {{},
     {Ev(1, "t1", Aware(1))},
     {[Ev(1, "t1", TsNone) EXCEPT !.created_at = TsNone]}}

InitWrite ==
    /\ TaskInit
    /\ probe = NoProbe
    /\ backend \in {"redis", "file"}
    /\ config \in
         {[present |-> TRUE, sources |-> <<s>>, destination |-> d] :
            s \in {x \in SyncSource : /\ x.id = "a"
                                      /\ x.last_sync = "None"
                                      /\ x.sync_tokens = "None"
                                      /\ x.sync_direction # "bidirectional"},
            d \in {x \in Destinations : x.provider_type # "microsoft"}}
    /\ store \in Stores
    /\ feed \in Feeds

Idle == \A u \in Tasks : pc[u] \in {"init", "done"}

NextWrite ==
    \E t \in Tasks :
        \/ Idle /\ CallSyncSingle(t, "direct", "a")
        \/ StepSingle(t)

SpecWrite == InitWrite /\ [][NextWrite]_vars

(***************************************************************************)
(* The per-event step of the write loop applied to one incoming event and  *)
(* the destination event with the same id.                                 *)
(***************************************************************************)
ProbeEvents == {e \in CalendarEvent : e.id = 1}

InitResolve ==
    /\ TaskInit
    /\ backend = "file"
    /\ config = NoConfig
    /\ store = {}
    /\ feed = << >>
    /\ probe \in [phase : {"in"}, source_event : ProbeEvents,
                  destination_event : ProbeEvents,
                  resolution_strategy : ConflictResolutions,
                  outcome : {"none"}]

\* controller.py:428-447 for one incoming event whose id the snapshot
\* holds, on a read_only source and a google destination whose update
\* request succeeds: the outcome is "update" (an update request was sent),
\* "none" (nothing sent) or "error" (the iteration raised and was counted
\* as a failure, controller.py:452-456).
ApplyWriteStep ==
    /\ probe.phase = "in"
    /\ LET destination == [provider_type |-> "google",
                           conflict_resolution |-> probe.resolution_strategy]
           source == [id |-> "a", enabled |-> TRUE, sync_method |-> "api",
                      sync_direction |-> "read_only", last_sync |-> "None",
                      sync_tokens |-> "None"]
           acc0 == [success_count |-> 0, failure_count |-> 0, errors |-> << >>,
                    calls |-> << >>, store |-> {probe.destination_event}]
           acc == ProcessEvent(1, probe.source_event, {probe.destination_event},
                               destination, source, {1}, acc0)
       IN  probe' = [probe EXCEPT
                       !.phase = "out",
                       !.outcome = IF acc.errors # << >> THEN "error"
                                   ELSE IF acc.calls # << >> THEN acc.calls[1].k
                                   ELSE "none"]
    /\ UNCHANGED <<backend, config, store, feed, active_syncs, pc, op, origin,
                   ctrl, cur, nested, cfg, loaded, idx, delegated, result,
                   effects, log, db, clock, ret>>

NextResolve == ApplyWriteStep

SpecResolve == InitResolve /\ [][NextResolve]_vars

(***************************************************************************)
(* sync_all_calendars over a stored configuration with two sources, over   *)
(* no stored configuration, and over a stored document that lacks the      *)
(* destination.                                                            *)
(***************************************************************************)
ApiSource(id, enabled) ==
    [id |-> id, enabled |-> enabled, sync_method |-> "api",
     sync_direction |-> "read_only", last_sync |-> "None",
     sync_tokens |-> "None"]

\* What a stored document without a "destination" key holds for it.
NoDestination == [provider_type |-> "none", conflict_resolution |-> "latest_wins"]

TwoSourceConfigs ==
    {NoConfig} \cup
    {[present |-> TRUE, sources |-> <<ApiSource("a", ea), ApiSource("b", eb)>>,
      destination |-> d] :
        ea \in BOOLEAN, eb \in BOOLEAN, d \in {NoConfig.destination, NoDestination}}

InitAll ==
    /\ TaskInit
    /\ probe = NoProbe
    /\ backend \in {"redis", "file"}
    /\ config \in TwoSourceConfigs
    /\ store = {}
    /\ feed \in {<< >>, <<Ev(1, "t1", Aware(1))>>}

NextAll ==
    \E t \in Tasks :
        \/ CallSyncAll(t, "direct")
        \/ AllLoad(t)
        \/ AllSave(t)
        \/ StepSingle(t)

SpecAll == InitAll /\ [][NextAll]_vars

(***************************************************************************)
(* check_agent_heartbeats (controller.py:678-711) applied to one agent of  *)
(* the loaded configuration.  Times are in seconds; last_check_in is -1    *)
(* for an agent that never checked in (None).                              *)
(***************************************************************************)
MaxInterval == 1

SecondsPerMinute == 60

GraceFactor == 2

\* controller.py:694-697
IsActive_Inclusive(last_check_in, now, interval_minutes) ==
    /\ last_check_in # -1
    /\ now - last_check_in <= interval_minutes * SecondsPerMinute * GraceFactor

IsActive(last_check_in, now, interval_minutes) ==
    /\ last_check_in # -1
    /\ now - last_check_in < interval_minutes * SecondsPerMinute * GraceFactor

\* controller.py:689-709: what the report holds for the agent: nothing for
\* a disabled agent, else its status.
AgentStatus(agent, now) ==
    IF ~agent.enabled THEN "unreported"
    ELSE IF IsActive(agent.last_check_in, now, agent.interval_minutes)
    THEN "active" ELSE "inactive"

MaxAge == MaxInterval * SecondsPerMinute * GraceFactor + 1

InitLiveness ==
    /\ TaskInit
    /\ backend = "file"
    /\ config = NoConfig
    /\ store = {}
    /\ feed = << >>
    /\ probe \in [phase : {"in"},
                  agent : [enabled : BOOLEAN, interval_minutes : 0..MaxInterval,
                           last_check_in : {-1} \cup 0..MaxAge],
                  now : {MaxAge},
                  status : {"none"}]

CheckAgentHeartbeats ==
    /\ probe.phase = "in"
    /\ probe' = [probe EXCEPT !.phase = "out",
                              !.status = AgentStatus(probe.agent, probe.now)]
    /\ UNCHANGED <<backend, config, store, feed, active_syncs, pc, op, origin,
                   ctrl, cur, nested, cfg, loaded, idx, delegated, result,
                   effects, log, db, clock, ret>>

NextLiveness == CheckAgentHeartbeats

SpecLiveness == InitLiveness /\ [][NextLiveness]_vars

(***************************************************************************)
(* The storage manager on its own: the same sequence of operations, at the *)
(* same times, on a manager of each backend.                               *)
(***************************************************************************)
StorageIdle ==
    UNCHANGED <<backend, config, store, feed, active_syncs, pc, op, origin, ctrl,
                cur, nested, cfg, loaded, idx, delegated, result, effects, log,
                probe>>

\* save_agent_events (storage.py:90-99), save_import_data (113-122)
SaveCache(key, data) ==
    /\ db' = [b \in Backends |-> save_cache(b, db[b], key, data, clock)]
    /\ ret' = [b \in Backends |-> [op |-> "save_cache", key |-> key]]
    /\ UNCHANGED clock
    /\ StorageIdle

\* get_agent_events (storage.py:78-88), get_import_data (101-111)
GetCache(key) ==
    /\ ret' = [b \in Backends |->
                 [op |-> "get_cache", key |-> key,
                  value |-> get_cache(b, db[b], key, clock)]]
    /\ UNCHANGED <<db, clock>>
    /\ StorageIdle

\* save_sync_result (storage.py:124-159), save_source_sync_result (161-196)
SaveResult(scope, record) ==
    /\ \A b \in Backends : Len(db[b].history[scope]) < MaxHistory
    /\ db' = [b \in Backends |-> save_result(b, db[b], scope, record, clock)]
    /\ ret' = [b \in Backends |-> [op |-> "save_result", scope |-> scope]]
    /\ UNCHANGED clock
    /\ StorageIdle

\* get_latest_sync_result (storage.py:198-208),
\* get_latest_source_sync_result (210-220)
GetLatest(scope) ==
    /\ ret' = [b \in Backends |->
                 [op |-> "get_latest", scope |-> scope,
                  value |-> get_latest(b, db[b], scope)]]
    /\ UNCHANGED <<db, clock>>
    /\ StorageIdle

\* Time passes: a second (at most MaxSeconds of them in a row), or the
\* expiry period (at most MaxPeriods of them).
Tick(d) ==
    /\ IF d = 1 THEN clock % ExpireSeconds < MaxSeconds
                ELSE clock \div ExpireSeconds < MaxPeriods
    /\ clock' = clock + d
    /\ UNCHANGED <<db, ret>>
    /\ StorageIdle

InitStorage ==
    /\ TaskInit
    /\ probe = NoProbe
    /\ backend = "file"
    /\ config = NoConfig
    /\ store = {}
    /\ feed = << >>

NextStorage ==
    \/ \E key \in {<<"agent", "a">>, <<"import", "a">>}, data \in DataVals :
           SaveCache(key, data)
    \/ \E key \in {<<"agent", "a">>, <<"import", "a">>} : GetCache(key)
    \/ \E scope \in Scopes : SaveResult(scope, "r1")
    \/ \E scope \in Scopes : GetLatest(scope)
    \/ \E d \in {1, ExpireSeconds} : Tick(d)

SpecStorage == InitStorage /\ [][NextStorage]_vars

(***************************************************************************)
(* Configuration and agent operations of the controller, applied at the    *)
(* same times to a controller over each backend.                           *)
(***************************************************************************)
\* save_configuration (controller.py:45-47)
SaveConfiguration(doc) ==
    /\ db' = [b \in Backends |-> save_sync_configuration(b, db[b], doc).c]
    /\ ret' = [b \in Backends |->
                 [op |-> "save_configuration", doc |-> doc,
                  status |-> save_sync_configuration(b, db[b], doc).status]]
    /\ UNCHANGED clock
    /\ StorageIdle

\* load_configuration (controller.py:37-43)
LoadConfiguration ==
    /\ ret' = [b \in Backends |->
                 [op |-> "load_configuration",
                  status |-> load_configuration(b, db[b]).status,
                  value |-> load_configuration(b, db[b]).value]]
    /\ UNCHANGED <<db, clock>>
    /\ StorageIdle

\* register_agent_heartbeat (controller.py:713-745)
RegisterAgentHeartbeat(agent_id, data) ==
    /\ db' = [b \in Backends |->
                register_agent_heartbeat(b, db[b], agent_id, data, clock).c]
    /\ ret' = [b \in Backends |->
                 [op |-> "heartbeat", agent |-> agent_id, data |-> data,
                  at |-> clock,
                  status |-> register_agent_heartbeat(
                                 b, db[b], agent_id, data, clock).status]]
    /\ UNCHANGED clock
    /\ StorageIdle

\* _get_events_from_agent_cache (controller.py:361-376)
GetEventsFromAgentCache(source_id) ==
    /\ ret' = [b \in Backends |->
                 [op |-> "agent_cache", source |-> source_id,
                  value |-> get_events_from_agent_cache(
                                b, db[b], source_id, clock)]]
    /\ UNCHANGED <<db, clock>>
    /\ StorageIdle

NextAgents ==
    \/ \E doc \in ConfigDocs : SaveConfiguration(doc)
    \/ LoadConfiguration
    \/ \E agent_id \in Ids, data \in DataVals \cup {NoEvents} :
           RegisterAgentHeartbeat(agent_id, data)
    \/ \E source_id \in Ids : GetEventsFromAgentCache(source_id)
    \/ Tick(1)

SpecAgents == InitStorage /\ [][NextAgents]_vars

(***************************************************************************)
(* The storage manager object (storage.py:26-50): construction and         *)
(* initialize, and its operations routed by `self.use_redis and            *)
(* self.redis`.  Two managers are driven in lockstep, each in its own      *)
(* copy of the environment: one constructed for redis whose server is      *)
(* unreachable, and one constructed for the file backend.  probe holds the *)
(* two managers and what the last operation gave back on each.             *)
(***************************************************************************)
Managers == {"networked", "file"}

\* What aioredis.from_url (storage.py:40-45) does when the server is
\* unreachable: it raises, or it hands back a client that connects on
\* first use.
ConnectOutcomes == {"raises", "lazy"}

\* storage.py:26-34.  settings.REDIS_HOST is set (utils/config.py:27), so
\* use_redis is the constructor's argument.  The storage directory is
\* created only by a manager constructed for the file backend.
SyncStorageManager(use_redis, dir_exists) ==
    [use_redis |-> use_redis,
     redis |-> "None",
     dir |-> IF ~use_redis THEN TRUE ELSE dir_exists,
     c |-> EmptyContent]

\* storage.py:36-50
initialize(m, outcome) ==
    IF m.use_redis
    THEN IF outcome = "raises"
         THEN [m EXCEPT !.use_redis = FALSE]
         ELSE [m EXCEPT !.redis = "down"]
    ELSE m

\* `if self.use_redis and self.redis` (storage.py:59, 71, 80, 92, 128, 200)
Route(m) == IF m.use_redis /\ m.redis # "None" THEN "redis" ELSE "file"

\* What a write raises before it changes anything: a command sent to an
\* unreachable server, or open(path, "w") in a directory that does not
\* exist (storage.py:75, 98, 143).
WriteFault(m) ==
    IF Route(m) = "redis"
    THEN IF m.redis = "down" THEN "ConnectionError" ELSE "ok"
    ELSE IF m.dir THEN "ok" ELSE "FileNotFoundError"

\* A read of the file backend tests os.path.exists first (storage.py:63,
\* 85, 206) and raises nothing.
ReadFault(m) ==
    IF Route(m) = "redis" /\ m.redis = "down" THEN "ConnectionError" ELSE "ok"

FallbackDocs == {doc \in ConfigDocs : doc.source.id = "a" /\ doc.agent.id = "a"}

MgrStep(mgr, out) ==
    /\ probe' = [probe EXCEPT !.mgr = mgr, !.out = out]
    /\ UNCHANGED <<backend, config, store, feed, active_syncs, pc, op, origin,
                   ctrl, cur, nested, cfg, loaded, idx, delegated, result,
                   effects, log, db, clock, ret>>

\* initialize (storage.py:36-50) on both managers
MgrInitialize(outcome) ==
    /\ probe.phase = "new"
    /\ probe' = [probe EXCEPT
                    !.phase = "ready",
                    !.mgr = [x \in Managers |-> initialize(probe.mgr[x], outcome)],
                    !.out = [x \in Managers |->
                               [op |-> "initialize", status |-> "ok",
                                value |-> "None"]]]
    /\ UNCHANGED <<backend, config, store, feed, active_syncs, pc, op, origin,
                   ctrl, cur, nested, cfg, loaded, idx, delegated, result,
                   effects, log, db, clock, ret>>

\* save_sync_configuration (storage.py:69-76)
MgrSaveConfiguration(doc) ==
    LET saved(m) == save_sync_configuration(Route(m), m.c, doc)
        status(m) == IF WriteFault(m) # "ok" THEN WriteFault(m) ELSE saved(m).status
    IN  /\ probe.phase = "ready"
        /\ MgrStep([x \in Managers |->
                       IF status(probe.mgr[x]) = "ok"
                       THEN [probe.mgr[x] EXCEPT !.c = saved(probe.mgr[x]).c]
                       ELSE probe.mgr[x]],
                    [x \in Managers |->
                       [op |-> "save_sync_configuration",
                        status |-> status(probe.mgr[x]), value |-> "None"]])

\* get_sync_configuration (storage.py:57-67)
MgrGetConfiguration ==
    /\ probe.phase = "ready"
    /\ MgrStep(probe.mgr,
               [x \in Managers |->
                  LET m == probe.mgr[x]
                  IN  [op |-> "get_sync_configuration", status |-> ReadFault(m),
                       value |-> IF ReadFault(m) = "ok"
                                 THEN get_sync_configuration(Route(m), m.c)
                                 ELSE "None"]])

\* save_agent_events (storage.py:90-99), save_import_data (113-122)
MgrSaveCache(key, data) ==
    /\ probe.phase = "ready"
    /\ MgrStep([x \in Managers |->
                  LET m == probe.mgr[x]
                  IN  IF WriteFault(m) = "ok"
                      THEN [m EXCEPT !.c = save_cache(Route(m), m.c, key, data, clock)]
                      ELSE m],
               [x \in Managers |->
                  [op |-> "save_cache", status |-> WriteFault(probe.mgr[x]),
                   value |-> "None"]])

\* get_agent_events (storage.py:78-88), get_import_data (101-111)
MgrGetCache(key) ==
    /\ probe.phase = "ready"
    /\ MgrStep(probe.mgr,
               [x \in Managers |->
                  LET m == probe.mgr[x]
                  IN  [op |-> "get_cache", status |-> ReadFault(m),
                       value |-> IF ReadFault(m) = "ok"
                                 THEN get_cache(Route(m), m.c, key, clock)
                                 ELSE "None"]])

\* save_sync_result (storage.py:124-159), save_source_sync_result (161-196)
MgrSaveResult(scope, record) ==
    /\ probe.phase = "ready"
    /\ \A x \in Managers : Len(probe.mgr[x].c.history[scope]) < MaxHistory
    /\ MgrStep([x \in Managers |->
                  LET m == probe.mgr[x]
                  IN  IF WriteFault(m) = "ok"
                      THEN [m EXCEPT !.c = save_result(Route(m), m.c, scope,
                                                       record, clock)]
                      ELSE m],
               [x \in Managers |->
                  [op |-> "save_result", status |-> WriteFault(probe.mgr[x]),
                   value |-> "None"]])

\* get_latest_sync_result (storage.py:198-208),
\* get_latest_source_sync_result (210-220)
MgrGetLatest(scope) ==
    /\ probe.phase = "ready"
    /\ MgrStep(probe.mgr,
               [x \in Managers |->
                  LET m == probe.mgr[x]
                  IN  [op |-> "get_latest", status |-> ReadFault(m),
                       value |-> IF ReadFault(m) = "ok"
                                 THEN get_latest(Route(m), m.c, scope)
                                 ELSE "None"]])

\* Both managers constructed, before initialize; the storage directory
\* exists beforehand or not.
InitFallback ==
    /\ TaskInit
    /\ backend = "file"
    /\ config = NoConfig
    /\ store = {}
    /\ feed = << >>
    /\ \E dir_exists \in BOOLEAN :
           probe = [phase |-> "new",
                    mgr |-> [x \in Managers |->
                               SyncStorageManager(x = "networked", dir_exists)],
                    out |-> [x \in Managers |->
                               [op |-> "none", status |-> "ok", value |-> "None"]]]

NextFallback ==
    \/ \E outcome \in ConnectOutcomes : MgrInitialize(outcome)
    \/ \E doc \in FallbackDocs : MgrSaveConfiguration(doc)
    \/ MgrGetConfiguration
    \/ \E data \in DataVals : MgrSaveCache(<<"agent", "a">>, data)
    \/ MgrGetCache(<<"agent", "a">>)
    \/ \E scope \in Scopes : MgrSaveResult(scope, "r1")
    \/ \E scope \in Scopes : MgrGetLatest(scope)

SpecFallback == InitFallback /\ [][NextFallback]_vars

(***************************************************************************)
(* Configuration mutations of the controller (controller.py:37-177 and     *)
(* 713-745).  Every mutation loads the whole document, changes its copy    *)
(* and saves the whole document; a task is suspended between the load and  *)
(* the save.  Here the stored document also carries the agents             *)
(* (architecture.py:119); cfg[t] is the document task t loaded and         *)
(* loaded[t] the document it is about to save.                             *)
(***************************************************************************)
MaxItems == 2

\* architecture.py:100-114: the id of an agent and whether it has checked in
AgentConfig(id, last_check_in) == [id |-> id, last_check_in |-> last_check_in]

ConfigDoc(present, sources, agents) ==
    [present |-> present, sources |-> sources, agents |-> agents,
     destination |-> NoConfig.destination]

\* The operations: kind, the id they are given, and for update_sync_source
\* the "id" key of the updates mapping ("" when the mapping has none and
\* sets enabled to False instead).
ConfigOps ==
    [kind : {"load", "configure_destination"}, id : {""}, new_id : {""}]
    \cup [kind : {"add_source", "remove_source", "add_agent", "heartbeat"},
          id : Ids, new_id : {""}]
    \cup [kind : {"update_source"}, id : Ids, new_id : Ids \cup {""}]

RemoveAt(seq, i) == SubSeq(seq, 1, i - 1) \o SubSeq(seq, i + 1, Len(seq))

\* json.dumps without default (storage.py:72) meets a datetime.
DocHasDatetime(doc) ==
    \/ \E i \in 1..Len(doc.sources) : doc.sources[i].last_sync # "None"
    \/ \E i \in 1..Len(doc.agents) : doc.agents[i].last_check_in # "None"

\* What a mutation does with the document it loaded, up to its save: the
\* changed document, or the exception it raises instead.
\*   add_sync_source        controller.py:53-61
\*   update_sync_source     controller.py:69-83
\*   remove_sync_source     controller.py:89-99
\*   configure_destination  controller.py:106 (reads color_management,
\*                          which SyncDestination does not have)
\*   add_sync_agent         controller.py:167-175
\*   register_agent_heartbeat  controller.py:718-736
Mutate(doc, o) ==
    LET si == FindSource(doc.sources, o.id)
        ai == FindSource(doc.agents, o.id)
    IN  CASE o.kind = "add_source" ->
               IF si # 0 THEN [status |-> "rejected", doc |-> doc]
               ELSE [status |-> "ok",
                     doc |-> [doc EXCEPT !.sources = Append(@, ApiSource(o.id, TRUE))]]
          [] o.kind = "update_source" ->
               IF si = 0 THEN [status |-> "not_found", doc |-> doc]
               ELSE [status |-> "ok",
                     doc |-> [doc EXCEPT !.sources[si] =
                                IF o.new_id # "" THEN [@ EXCEPT !.id = o.new_id]
                                ELSE [@ EXCEPT !.enabled = FALSE]]]
          [] o.kind = "remove_source" ->
               IF si = 0 THEN [status |-> "not_found", doc |-> doc]
               ELSE [status |-> "ok",
                     doc |-> [doc EXCEPT !.sources = RemoveAt(@, si)]]
          [] o.kind = "add_agent" ->
               IF ai # 0 THEN [status |-> "rejected", doc |-> doc]
               ELSE [status |-> "ok",
                     doc |-> [doc EXCEPT !.agents = Append(@, AgentConfig(o.id, "None"))]]
          [] o.kind = "heartbeat" ->
               IF ai = 0 THEN [status |-> "not_found", doc |-> doc]
               ELSE [status |-> "ok",
                     doc |-> [doc EXCEPT !.agents[ai].last_check_in = "set"]]
          [] o.kind = "configure_destination" ->
               [status |-> "AttributeError", doc |-> doc]

ConfigIdle ==
    UNCHANGED <<backend, store, feed, active_syncs, origin, ctrl, cur, nested,
                idx, delegated, effects, log, probe, db, clock, ret>>

\* A request arrives; adds are taken while the lists are short.
ConfigCall(t, o) ==
    /\ pc[t] \in {"init", "done"}
    /\ o.kind = "add_source" => Len(config.sources) < MaxItems
    /\ o.kind = "add_agent" => Len(config.agents) < MaxItems
    /\ pc' = [pc EXCEPT ![t] = "c_load"]
    /\ op' = [op EXCEPT ![t] = o]
    /\ result' = [result EXCEPT ![t] = "none"]
    /\ cfg' = [cfg EXCEPT ![t] = << >>]
    /\ UNCHANGED <<config, loaded>>
    /\ ConfigIdle

\* load_configuration (controller.py:37-43) and the code up to the
\* operation's save_configuration.
ConfigLoad(t) ==
    /\ pc[t] = "c_load"
    /\ IF ~Loadable(config)
       THEN /\ result' = [result EXCEPT ![t] = "ValueError"]
            /\ pc' = [pc EXCEPT ![t] = "done"]
            /\ UNCHANGED <<cfg, loaded>>
       ELSE IF op[t].kind = "load"
       THEN /\ result' = [result EXCEPT ![t] = "ok"]
            /\ pc' = [pc EXCEPT ![t] = "done"]
            /\ cfg' = [cfg EXCEPT ![t] = config]
            /\ UNCHANGED loaded
       ELSE IF Mutate(config, op[t]).status # "ok"
       THEN /\ result' = [result EXCEPT ![t] = Mutate(config, op[t]).status]
            /\ pc' = [pc EXCEPT ![t] = "done"]
            /\ cfg' = [cfg EXCEPT ![t] = config]
            /\ UNCHANGED loaded
       ELSE /\ pc' = [pc EXCEPT ![t] = "c_save"]
            /\ cfg' = [cfg EXCEPT ![t] = config]
            /\ loaded' = [loaded EXCEPT ![t] = Mutate(config, op[t]).doc]
            /\ UNCHANGED result
    /\ UNCHANGED <<config, op>>
    /\ ConfigIdle

\* save_configuration (controller.py:45-47) over save_sync_configuration
\* (storage.py:69-76)
ConfigSave(t) ==
    /\ pc[t] = "c_save"
    /\ pc' = [pc EXCEPT ![t] = "done"]
    /\ IF backend = "redis" /\ DocHasDatetime(loaded[t])
       THEN /\ result' = [result EXCEPT ![t] = "TypeError"]
            /\ UNCHANGED config
       ELSE /\ result' = [result EXCEPT ![t] = "ok"]
            /\ config' = loaded[t]
    /\ UNCHANGED <<op, cfg, loaded>>
    /\ ConfigIdle

ConfigStep(t, ops) ==
    \/ \E o \in ops : ConfigCall(t, o)
    \/ ConfigLoad(t)
    \/ ConfigSave(t)

\* Storage holds nothing, an empty configuration, or one source and one
\* agent.
InitConfig ==
    /\ TaskInit
    /\ probe = NoProbe
    /\ backend \in Backends
    /\ config \in {ConfigDoc(FALSE, << >>, << >>),
                   ConfigDoc(TRUE, << >>, << >>),
                   ConfigDoc(TRUE, <<ApiSource("a", TRUE)>>,
                             <<AgentConfig("a", "None")>>)}
    /\ store = {}
    /\ feed = << >>

\* One request at a time.
NextConfigSequential == ConfigStep(1, ConfigOps)

SpecConfigSequential == InitConfig /\ [][NextConfigSequential]_vars

\* Requests served concurrently: adds of sources and heartbeats.
RaceOps == {o \in ConfigOps : o.kind \in {"add_source", "heartbeat"}}

NextConfig == \E t \in Tasks : ConfigStep(t, RaceOps)

SpecConfig == InitConfig /\ [][NextConfig]_vars

(***************************************************************************)
(* UnifiedCalendarService.get_all_events                                   *)
(* (services/unified_calendar.py:116-287), applied to the outcomes of its  *)
(* per-calendar fetches.  An event is identified by the calendar it comes  *)
(* from and its position there; its start_time is a datetime, timezone-    *)
(* aware or naive (calendar_event.py:98 parses an all-day Google event to  *)
(* a naive datetime, 102 a timed one to an aware datetime).                *)
(***************************************************************************)
MaxCalendars == 3

StartTimes == [t : 1..MaxTime, aware : BOOLEAN]

\* The events a fetch yields for calendar k from their start times.
EventsOf(k, starts) ==
    [i \in 1..Len(starts) |-> [calendar |-> k, n |-> i, start_time |-> starts[i]]]

\* Start times of one calendar's events: the first calendar has up to two
\* events, the others up to one.
StartLists(k) ==
    {<< >>} \cup {<<x>> : x \in StartTimes}
    \cup (IF k = 1 THEN {<<x, y>> : x \in StartTimes, y \in StartTimes} ELSE {})

\* The per-calendar fetches in the order get_all_events creates them
\* (unified_calendar.py:158-250): two Google calendars, then an Exchange
\* calendar.  ok says whether the provider call succeeds, token what the
\* provider gives as continuation token.
FetchProvider(k) == IF k = MaxCalendars THEN "exchange" ELSE "google"

FetchInputs ==
    {[k \in 1..MaxCalendars |->
         [provider |-> FetchProvider(k), ok |-> oks[k],
          events |-> EventsOf(k, starts[k]),
          token |-> IF tok THEN "T" ELSE "None"]] :
        oks \in [1..MaxCalendars -> BOOLEAN],
        tok \in BOOLEAN,
        starts \in {f \in [1..MaxCalendars -> StartLists(1)] :
                       \A k \in 1..MaxCalendars : f[k] \in StartLists(k)}}

\* _get_google_events ... _get_exchange_events (unified_calendar.py:289-407):
\* the provider's events and token, or an empty list and no token when the
\* provider call raises.
FetchResult(task) ==
    IF task.ok THEN [events |-> task.events, token |-> task.token]
    ELSE [events |-> << >>, token |-> "None"]

\* unified_calendar.py:224-250: the Exchange fetches are created only when
\* the authentication succeeds.
CreatedFetches(tasks, exchange_auth) ==
    {k \in 1..Len(tasks) : tasks[k].provider = "exchange" => exchange_auth}

\* unified_calendar.py:265-275: the results are merged in task order.
RECURSIVE Merged(_, _, _)
Merged(tasks, created, k) ==
    IF k = 0 THEN << >>
    ELSE Merged(tasks, created, k - 1)
         \o (IF k \in created THEN FetchResult(tasks[k]).events ELSE << >>)

\* list.sort keeps equal keys in their order: an element is placed behind
\* the elements that are not greater.
InsertByStart_BeforeEqual(sorted, e) ==
    LET k == Cardinality({i \in 1..Len(sorted) :
                             sorted[i].start_time.t < e.start_time.t})
    IN  SubSeq(sorted, 1, k) \o <<e>> \o SubSeq(sorted, k + 1, Len(sorted))

InsertByStart(sorted, e) ==
    LET k == Cardinality({i \in 1..Len(sorted) :
                             sorted[i].start_time.t <= e.start_time.t})
    IN  SubSeq(sorted, 1, k) \o <<e>> \o SubSeq(sorted, k + 1, Len(sorted))

RECURSIVE SortByStart(_)
SortByStart(events) ==
    IF events = << >> THEN << >>
    ELSE InsertByStart(SortByStart(SubSeq(events, 1, Len(events) - 1)),
                       events[Len(events)])

\* Ordering a timezone-aware against a naive datetime raises TypeError.
SortRaises(events) ==
    \E i, j \in 1..Len(events) :
        events[i].start_time.aware # events[j].start_time.aware

\* unified_calendar.py:252-287
get_all_events(tasks, exchange_auth) ==
    LET created == CreatedFetches(tasks, exchange_auth)
        all_events == Merged(tasks, created, Len(tasks))
        new_sync_tokens ==
            [k \in 1..Len(tasks) |->
                IF k \in created THEN FetchResult(tasks[k]).token ELSE "None"]
    IN  IF SortRaises(all_events)
        THEN [status |-> "TypeError", events |-> << >>,
              syncTokens |-> [k \in 1..Len(tasks) |-> "None"]]
        ELSE [status |-> "ok", events |-> SortByStart(all_events),
              syncTokens |-> new_sync_tokens]

InitFetch ==
    /\ TaskInit
    /\ backend = "file"
    /\ config = NoConfig
    /\ store = {}
    /\ feed = << >>
    /\ \E tasks \in FetchInputs, exchange_auth \in BOOLEAN :
           probe = [phase |-> "in", tasks |-> tasks,
                    exchange_auth |-> exchange_auth]

GetAllEvents ==
    /\ probe.phase = "in"
    /\ probe' = [phase |-> "out", tasks |-> probe.tasks,
                 exchange_auth |-> probe.exchange_auth,
                 merged |-> Merged(probe.tasks,
                                   CreatedFetches(probe.tasks, probe.exchange_auth),
                                   Len(probe.tasks)),
                 out |-> get_all_events(probe.tasks, probe.exchange_auth)]
    /\ UNCHANGED <<backend, config, store, feed, active_syncs, pc, op, origin,
                   ctrl, cur, nested, cfg, loaded, idx, delegated, result,
                   effects, log, db, clock, ret>>

NextFetch == GetAllEvents

SpecFetch == InitFetch /\ [][NextFetch]_vars

(***************************************************************************)
(* get_events of the Google and Microsoft services                         *)
(* (services/google_calendar.py:56-158, microsoft_calendar.py:53-163).     *)
(* The method is wrapped by tenacity's retry: up to MaxAttempts attempts,  *)
(* for Google while the attempt raises HttpError, for Microsoft while it   *)
(* raises any exception (microsoft_calendar.py:53-58, read as              *)
(* retry=retry_if_exception_type(Exception)).  The fallback of the except  *)
(* branch calls self.get_events, the wrapped method, again without token.  *)
(* probe holds the position: the attempt number of the outer call and of   *)
(* the nested tokenless call, and the provider calls made so far.          *)
(***************************************************************************)
\* stop_after_attempt(3) (google_calendar.py:57, microsoft_calendar.py:54)
MaxAttempts == 3

FetchProviders == {"google", "microsoft"}

\* What the provider answers: the events, "gone" (HTTP 410 for a stale
\* token), another HTTP error, or a failure that is not an HTTP error.
Outcomes(token) ==
    IF token = "stale" THEN {"gone"} ELSE {"ok", "http_error", "other"}

\* The retry condition of the decorator.
Retried(provider, outcome) ==
    IF provider = "google" THEN outcome \in {"gone", "http_error"}
    ELSE outcome # "ok"

\* google_calendar.py:140-150: status 410 and a token were given;
\* microsoft_calendar.py:148-161: any exception and a delta link was given.
FallsBack(provider, outcome, token) ==
    /\ token # "None"
    /\ IF provider = "google" THEN outcome = "gone" ELSE outcome # "ok"

RetryIdle ==
    UNCHANGED <<backend, config, store, feed, active_syncs, pc, op, origin,
                ctrl, cur, nested, cfg, loaded, idx, delegated, result,
                effects, log, db, clock, ret>>

\* An exception leaves the body of the outer call: the decorator starts
\* the next attempt, with the same arguments, or re-raises.
OuterRaises(p, outcome) ==
    IF Retried(p.provider, outcome) /\ p.outer < MaxAttempts
    THEN [p EXCEPT !.phase = "outer", !.outer = @ + 1, !.inner = 0]
    ELSE [p EXCEPT !.phase = "done", !.status = "raised"]

\* One attempt of the outer call: the provider is called with the token
\* the caller gave.
OuterAttempt(outcome) ==
    /\ probe.phase = "outer"
    /\ outcome \in Outcomes(probe.token)
    /\ LET p == [probe EXCEPT
                    !.calls = Append(@, [tokenless |-> probe.token = "None",
                                         outcome |-> outcome])]
       IN  probe' = IF outcome = "ok"
                    THEN [p EXCEPT !.phase = "done", !.status = "ok"]
                    ELSE IF FallsBack(p.provider, outcome, p.token)
                    THEN [p EXCEPT !.phase = "inner", !.inner = 1]
                    ELSE OuterRaises(p, outcome)
    /\ RetryIdle

\* One attempt of the nested call without token.  Its decorator retries
\* it; when it re-raises, the exception leaves the except branch of the
\* outer call's body.
InnerAttempt(outcome) ==
    /\ probe.phase = "inner"
    /\ outcome \in Outcomes("None")
    /\ LET p == [probe EXCEPT
                    !.calls = Append(@, [tokenless |-> TRUE, outcome |-> outcome])]
       IN  probe' = IF outcome = "ok"
                    THEN [p EXCEPT !.phase = "done", !.status = "ok"]
                    ELSE IF Retried(p.provider, outcome) /\ p.inner < MaxAttempts
                    THEN [p EXCEPT !.inner = @ + 1]
                    ELSE OuterRaises(p, outcome)
    /\ RetryIdle

InitRetry ==
    /\ TaskInit
    /\ backend = "file"
    /\ config = NoConfig
    /\ store = {}
    /\ feed = << >>
    /\ \E provider \in FetchProviders, token \in {"stale", "valid", "None"} :
           probe = [phase |-> "outer", provider |-> provider, token |-> token,
                    outer |-> 1, inner |-> 0, calls |-> << >>, status |-> "none"]

NextRetry ==
    \/ \E outcome \in {"ok", "gone", "http_error", "other"} : OuterAttempt(outcome)
    \/ \E outcome \in {"ok", "http_error", "other"} : InnerAttempt(outcome)

SpecRetry == InitRetry /\ [][NextRetry]_vars

(***************************************************************************)
(* The periodic task and its cancellation at shutdown (main.py:210-237,    *)
(* 279-301).  probe holds the task's suspension point, the remaining       *)
(* minutes of its sleep, the await of sync_all_calendars it is suspended   *)
(* at, what it printed, the calls it issued, and shutdown's position.      *)
(* Time is counted in minutes.                                             *)
(***************************************************************************)
\* asyncio.sleep(60) (main.py:237)
BackoffSeconds == 60

MaxIterations == 3

\* interval_minutes (main.py:210, 271)
Intervals == {1, 2}

\* The awaits of sync_all_calendars (controller.py:190, 213, 225) and what
\* each calls.
SyncAwaits == <<"load_configuration", "sync_single_source", "save_sync_result">>

\* Python 3.7 and earlier: CancelledError derives from Exception.
Catches_CancelledIsException(handler, exc) ==
    \/ handler = exc
    \/ handler = "Exception"

\* except clauses (main.py requires Python 3.9: CancelledError derives from
\* BaseException only).
Catches(handler, exc) ==
    \/ handler = exc
    \/ handler = "Exception" /\ exc # "CancelledError"

PeriodicIdle ==
    UNCHANGED <<backend, config, store, feed, active_syncs, pc, op, origin,
                ctrl, cur, nested, cfg, loaded, idx, delegated, result,
                effects, log, db, clock, ret>>

\* The task runs only when no cancellation is pending for it: a pending
\* cancellation is thrown into it the next time it is resumed.
Resumable(phase) == probe.phase = phase /\ ~probe.must_cancel

\* main.py:217: the top of the loop.
IntervalSleep(p) ==
    [p EXCEPT !.phase = "interval_sleep", !.remaining = p.interval, !.at = 0]

\* main.py:225-226: the handler around sync_all_calendars prints and the
\* loop goes on.
SyncFailed(p) == IntervalSleep([p EXCEPT !.printed = Append(@, "sync_error")])

\* A minute of a sleep passes.
SleepTick ==
    /\ probe.phase \in {"interval_sleep", "backoff_sleep"}
    /\ ~probe.must_cancel
    /\ probe.remaining > 0
    /\ probe' = [probe EXCEPT !.remaining = @ - 1]
    /\ PeriodicIdle

\* main.py:217-221: the interval sleep returns and sync_all_calendars is
\* called; a failure of the loop body outside that call (body_raises)
\* reaches the handler of main.py:233-237.
IntervalWake(body_raises) ==
    /\ Resumable("interval_sleep")
    /\ probe.remaining = 0
    /\ probe.iterations < MaxIterations
    /\ probe' = IF body_raises
                THEN [probe EXCEPT !.phase = "backoff_sleep",
                                   !.remaining = BackoffSeconds \div SecondsPerMinute,
                                   !.iterations = @ + 1,
                                   !.printed = Append(@, "loop_error")]
                ELSE [probe EXCEPT !.phase = "sync", !.at = 1,
                                   !.iterations = @ + 1,
                                   !.syncs = @ + 1,
                                   !.calls = @ + 1]
    /\ PeriodicIdle

\* The await the sync is suspended at completes or raises.  A failure of
\* sync_single_source is caught per source (controller.py:216-219); a
\* failure of load_configuration or save_sync_result leaves
\* sync_all_calendars.
SyncStep(raises) ==
    /\ Resumable("sync")
    /\ probe' = IF raises /\ SyncAwaits[probe.at] # "sync_single_source"
                THEN SyncFailed(probe)
                ELSE IF probe.at < Len(SyncAwaits)
                THEN [probe EXCEPT !.at = @ + 1, !.calls = @ + 1]
                ELSE IntervalSleep([probe EXCEPT !.printed = Append(@, "completed")])
    /\ PeriodicIdle

\* main.py:237: the backoff sleep returns and the loop resumes.
BackoffWake ==
    /\ Resumable("backoff_sleep")
    /\ probe.remaining = 0
    /\ probe' = IntervalSleep(probe)
    /\ PeriodicIdle

\* main.py:293-296: shutdown_event cancels the task and awaits it.
ShutdownCancel ==
    /\ probe.shutdown = "running"
    /\ probe' = [probe EXCEPT !.shutdown = "waiting", !.must_cancel = TRUE]
    /\ PeriodicIdle

\* CancelledError is thrown at the await the task is suspended at.  In the
\* interval sleep the handler of main.py:229 breaks the loop; inside
\* sync_all_calendars it passes the handlers for Exception
\* (controller.py:216, main.py:225) and reaches the same handler; in the
\* backoff sleep, inside the handler of main.py:233, it leaves the task.
DeliverCancel ==
    /\ probe.must_cancel
    /\ probe.phase # "ended"
    /\ LET p == [probe EXCEPT !.must_cancel = FALSE]
           ended == [p EXCEPT !.phase = "ended",
                              !.printed = IF probe.phase = "backoff_sleep"
                                          THEN @ ELSE Append(@, "cancelled")]
       IN  probe' = IF probe.phase = "sync" /\ Catches("Exception", "CancelledError")
                    THEN IF SyncAwaits[p.at] = "sync_single_source"
                         THEN [p EXCEPT !.at = @ + 1, !.calls = @ + 1]
                         ELSE SyncFailed(p)
                    ELSE ended
    /\ PeriodicIdle

\* main.py:296-299: the await of the finished task returns or raises
\* CancelledError, which is caught.
ShutdownWait ==
    /\ probe.shutdown = "waiting"
    /\ probe.phase = "ended"
    /\ probe' = [probe EXCEPT !.shutdown = "complete"]
    /\ PeriodicIdle

\* main.py:271-272: the task is created and starts its first sleep.
InitPeriodic ==
    /\ TaskInit
    /\ backend = "file"
    /\ config = NoConfig
    /\ store = {}
    /\ feed = << >>
    /\ \E interval \in Intervals :
           probe = [phase |-> "interval_sleep", interval |-> interval,
                    remaining |-> interval, at |-> 0, iterations |-> 0,
                    syncs |-> 0, calls |-> 0, printed |-> << >>,
                    must_cancel |-> FALSE, shutdown |-> "running"]

NextPeriodic ==
    \/ SleepTick
    \/ \E body_raises \in BOOLEAN : IntervalWake(body_raises)
    \/ \E raises \in BOOLEAN : SyncStep(raises)
    \/ BackoffWake
    \/ ShutdownCancel
    \/ DeliverCancel
    \/ ShutdownWait

SpecPeriodic == InitPeriodic /\ [][NextPeriodic]_vars

\* The event loop runs every ready callback: the step of the cancelled
\* task and the wake-up of the coroutine awaiting it.
SpecShutdown ==
    SpecPeriodic /\ WF_vars(DeliverCancel) /\ WF_vars(ShutdownWait)

(***************************************************************************)
(* sync_single_source over sources of every provider type                  *)
(* (controller.py:269-280, 308-359).  A source here carries its            *)
(* provider_type, a str (architecture.py:77); sync_method is an enum       *)
(* field, so a stored document with any other value does not load.         *)
(***************************************************************************)
\* architecture.py:77 and calendar_event.py:7-12
SourceProviderTypes == {"google", "microsoft", "apple", "exchange", "ical"}

\* controller.py:317 and 338: the provider types _get_events_from_api_source
\* has a branch for.
HasApiPath(provider_type) == provider_type \in {"google", "microsoft"}

TypedSources ==
    [id : {"a"}, enabled : {TRUE}, sync_method : SyncMethods,
     sync_direction : {"read_only"}, last_sync : {"None"},
     sync_tokens : {"None"}, provider_type : SourceProviderTypes]

\* controller.py:269-287 for a source with its provider type: with
\* sync_method api and a provider type that matches neither branch,
\* _get_events_from_api_source calls no provider and returns the empty
\* list (controller.py:310, 357), the write phase is skipped and the run
\* goes on to persist last_sync.
SingleAcquireTyped(t) ==
    IF /\ pc[t] = "s_fetch"
       /\ loaded[t].source.sync_method = "api"
       /\ ~HasApiPath(loaded[t].source.provider_type)
    THEN /\ pc' = [pc EXCEPT ![t] = "s_upd_load"]
         /\ UNCHANGED <<env, config, store, active_syncs, op, origin, ctrl, cur,
                        nested, cfg, loaded, idx, delegated, result, effects, log>>
    ELSE SingleAcquire(t)

InitMethods ==
    /\ TaskInit
    /\ probe = NoProbe
    /\ backend \in {"redis", "file"}
    /\ config \in {[present |-> TRUE, sources |-> <<s>>,
                    destination |-> NoConfig.destination] : s \in TypedSources}
    /\ store = {}
    /\ feed \in {<< >>, <<Ev(1, "t1", Aware(1))>>}

NextMethods ==
    \E t \in Tasks :
        \/ Idle /\ CallSyncSingle(t, "direct", "a")
        \/ SingleLoad(t)
        \/ SingleAcquireTyped(t)
        \/ SingleUpdLoad(t)
        \/ SingleUpdSave(t)
        \/ SingleSave(t)
        \/ Cancel(t)

SpecMethods == InitMethods /\ [][NextMethods]_vars

(***************************************************************************)
(* The write phase from the fetch of the existing events on                *)
(* (controller.py:417-458), applied to a batch, a destination calendar and *)
(* the outcomes of the destination's requests.                             *)
(***************************************************************************)
Batches ==
    Feeds \cup {<<Ev(1, "t1", Aware(1)), Ev(1, "t2", Aware(1))>>}

\* controller.py:417-458: the snapshot is fetched once and the loop runs
\* over the batch; the result is what the method returns, with the
\* requests sent and what the destination holds afterwards.
write_batch(events, destination, source, held, fetchOk, okCalls) ==
    LET existing_events == get_existing_events(destination, held, fetchOk)
        acc0 == [success_count |-> 0, failure_count |-> 0, errors |-> << >>,
                 calls |-> << >>, store |-> held]
    IN  WriteLoop(1, events, existing_events, destination, source, okCalls, acc0)

InitBatch ==
    /\ TaskInit
    /\ backend = "file"
    /\ config = NoConfig
    /\ store = {}
    /\ feed = << >>
    /\ \E events \in Batches, held \in Stores, d \in Destinations,
          direction \in {"read_only", "write_only"}, fetchOk \in BOOLEAN :
         \E okCalls \in SUBSET (1..Len(events)) :
           probe = [phase |-> "in", events |-> events, held |-> held,
                    destination |-> d, sync_direction |-> direction,
                    fetchOk |-> fetchOk, okCalls |-> okCalls,
                    out |-> [success_count |-> 0, failure_count |-> 0,
                             errors |-> << >>, calls |-> << >>, store |-> held]]

WriteBatch ==
    /\ probe.phase = "in"
    /\ LET source == [id |-> "a", enabled |-> TRUE, sync_method |-> "api",
                      sync_direction |-> probe.sync_direction,
                      last_sync |-> "None", sync_tokens |-> "None"]
       IN  probe' = [probe EXCEPT
                       !.phase = "out",
                       !.out = write_batch(probe.events, probe.destination, source,
                                           probe.held, probe.fetchOk, probe.okCalls)]
    /\ UNCHANGED <<backend, config, store, feed, active_syncs, pc, op, origin,
                   ctrl, cur, nested, cfg, loaded, idx, delegated, result,
                   effects, log, db, clock, ret>>

NextBatch == WriteBatch

SpecBatch == InitBatch /\ [][NextBatch]_vars

(***************************************************************************)
(* Requests of api/sync_router.py that name a source or an agent, served   *)
(* one after the other, each on a controller built for it                  *)
(* (sync_router.py:24-32).  probe holds what is stored: whether a          *)
(* configuration document exists, the ids of its sources and agents, the   *)
(* disabled sources, whether the document holds a datetime (last_sync,     *)
(* last_check_in), the agents with cached events, the number of result     *)
(* records, and the reply to the last request.                             *)
(***************************************************************************)
ReqIds == {"a", "b", "x"}

\* The status a route answers with when the controller raises
\* (sync_router.py:113-118, 133-138, 215-220: an HTTPException keeps its
\* status, anything else becomes 400; 232-241: ValueError becomes 404,
\* anything else 500).
StatusOf_ValueErrorUnmapped(route, signal) ==
    IF signal \in {"ok", "skipped"} THEN 200
    ELSE IF route = "sync_single_source" THEN 500
    ELSE IF signal = "not_found" THEN 404
    ELSE 400

StatusOf(route, signal) ==
    IF signal \in {"ok", "skipped"} THEN 200
    ELSE IF route = "sync_single_source"
    THEN IF signal \in {"not_found", "ValueError"} THEN 404 ELSE 500
    ELSE IF signal = "not_found" THEN 404
    ELSE 400

\* What is stored.
StoredState(p) ==
    <<p.present, p.sources, p.disabled, p.agents, p.stamped, p.cache, p.history>>

\* storage.py:69-76: the redis branch cannot serialize a document that
\* holds a datetime.
SaveRaises(p) == backend = "redis" /\ p.stamped

\* The request is answered: p is what is stored afterwards.
Reply(p, route, id, signal) ==
    /\ probe' = [p EXCEPT !.last = [route |-> route, id |-> id, signal |-> signal,
                                    status |-> StatusOf(route, signal)]]
    /\ UNCHANGED <<backend, config, store, feed, active_syncs, pc, op, origin,
                   ctrl, cur, nested, cfg, loaded, idx, delegated, result,
                   effects, log, db, clock, ret>>

\* sync_router.py:84-103 over controller.py:49-63
RouteAddSource(id) ==
    /\ id # "x"
    /\ IF ~probe.present THEN Reply(probe, "add_source", id, "ValueError")
       ELSE IF id \in probe.sources THEN Reply(probe, "add_source", id, "duplicate")
       ELSE IF SaveRaises(probe) THEN Reply(probe, "add_source", id, "TypeError")
       ELSE Reply([probe EXCEPT !.sources = @ \cup {id}], "add_source", id, "ok")

\* sync_router.py:142-160 over controller.py:163-177
RouteAddAgent(id) ==
    /\ id # "x"
    /\ IF ~probe.present THEN Reply(probe, "add_agent", id, "ValueError")
       ELSE IF id \in probe.agents THEN Reply(probe, "add_agent", id, "duplicate")
       ELSE IF SaveRaises(probe) THEN Reply(probe, "add_agent", id, "TypeError")
       ELSE Reply([probe EXCEPT !.agents = @ \cup {id}], "add_agent", id, "ok")

\* sync_router.py:105-118 over controller.py:65-83, with the update
\* {"enabled": false}
RouteUpdateSource(id) ==
    IF ~probe.present THEN Reply(probe, "update_source", id, "ValueError")
    ELSE IF id \notin probe.sources THEN Reply(probe, "update_source", id, "not_found")
    ELSE IF SaveRaises(probe) THEN Reply(probe, "update_source", id, "TypeError")
    ELSE Reply([probe EXCEPT !.disabled = @ \cup {id}], "update_source", id, "ok")

\* sync_router.py:120-138 over controller.py:85-99
RouteRemoveSource(id) ==
    IF ~probe.present THEN Reply(probe, "remove_source", id, "ValueError")
    ELSE IF id \notin probe.sources THEN Reply(probe, "remove_source", id, "not_found")
    ELSE IF SaveRaises(probe) THEN Reply(probe, "remove_source", id, "TypeError")
    ELSE Reply([probe EXCEPT !.sources = @ \ {id}, !.disabled = @ \ {id}],
               "remove_source", id, "ok")

\* sync_router.py:205-220 over controller.py:713-745: the agent is looked
\* up, then the events of the payload are cached, then the document with
\* last_check_in set is saved.
RouteAgentHeartbeat(id, has_events) ==
    IF ~probe.present THEN Reply(probe, "agent_heartbeat", id, "ValueError")
    ELSE IF id \notin probe.agents THEN Reply(probe, "agent_heartbeat", id, "not_found")
    ELSE LET cached == [probe EXCEPT !.cache = IF has_events THEN @ \cup {id} ELSE @]
         IN  IF backend = "redis"
             THEN Reply(cached, "agent_heartbeat", id, "TypeError")
             ELSE Reply([cached EXCEPT !.stamped = TRUE], "agent_heartbeat", id, "ok")

\* sync_router.py:224-241 over controller.py:232-306 on a fresh controller:
\* the source is looked up; a disabled source is skipped; a non-empty
\* batch ends the run at controller.py:412; otherwise last_sync is saved
\* and a result record is added.
RouteSyncSingleSource(id, has_events) ==
    /\ probe.history < MaxHistory
    /\ IF ~probe.present THEN Reply(probe, "sync_single_source", id, "ValueError")
       ELSE IF id \notin probe.sources
       THEN Reply(probe, "sync_single_source", id, "ValueError")
       ELSE IF id \in probe.disabled
       THEN Reply(probe, "sync_single_source", id, "skipped")
       ELSE IF has_events
       THEN Reply(probe, "sync_single_source", id, "AttributeError")
       ELSE IF backend = "redis"
       THEN Reply(probe, "sync_single_source", id, "TypeError")
       ELSE Reply([probe EXCEPT !.stamped = TRUE, !.history = @ + 1],
                  "sync_single_source", id, "ok")

InitRequests ==
    /\ TaskInit
    /\ backend \in Backends
    /\ config = NoConfig
    /\ store = {}
    /\ feed = << >>
    /\ \E present \in BOOLEAN :
           probe = [present |-> present, sources |-> {}, disabled |-> {},
                    agents |-> {}, stamped |-> FALSE, cache |-> {}, history |-> 0,
                    last |-> [route |-> "none", id |-> "", signal |-> "ok",
                              status |-> 200]]

NextRequests ==
    \E id \in ReqIds :
        \/ RouteAddSource(id)
        \/ RouteAddAgent(id)
        \/ RouteUpdateSource(id)
        \/ RouteRemoveSource(id)
        \/ \E has_events \in BOOLEAN : RouteAgentHeartbeat(id, has_events)
        \/ \E has_events \in BOOLEAN : RouteSyncSingleSource(id, has_events)

SpecRequests == InitRequests /\ [][NextRequests]_vars

(***************************************************************************)
(* check_agent_heartbeats (controller.py:678-711) over the agents of the   *)
(* loaded configuration.  The ids of the agents differ: add_sync_agent,    *)
(* the one operation that adds an agent, rejects an id the list holds      *)
(* (controller.py:167-172).                                                *)
(***************************************************************************)
ReportAgents ==
    [id : {"a", "b"}, enabled : BOOLEAN, interval_minutes : {MaxInterval},
     last_check_in : {-1, 0, MaxAge}]

AgentLists ==
    {<< >>} \cup {<<x>> : x \in ReportAgents}
        \cup {<<x, y>> : x \in {z \in ReportAgents : z.id = "a"},
                         y \in {z \in ReportAgents : z.id = "b"}}
        \cup {<<y, x>> : x \in {z \in ReportAgents : z.id = "a"},
                         y \in {z \in ReportAgents : z.id = "b"}}

\* The variant without the `continue` of controller.py:690-691.
check_agent_heartbeats_CountsDisabled(agents, now) ==
    LET all == 1..Len(agents)
        active == {i \in all : IsActive(agents[i].last_check_in, now,
                                        agents[i].interval_minutes)}
    IN  [total_agents |-> Len(agents),
         active_agents |-> Cardinality(active),
         inactive_agents |-> Cardinality(all \ active),
         agent_status |->
             [id \in {agents[i].id : i \in all} |->
                 LET last == CHOOSE i \in all :
                                 /\ agents[i].id = id
                                 /\ \A j \in all : agents[j].id = id => j <= i
                 IN  IF last \in active THEN "active" ELSE "inactive"]]

\* controller.py:682-711: the counters and the agent_status dict, whose
\* entry for an id is the one written last.
check_agent_heartbeats(agents, now) ==
    LET enabled == {i \in 1..Len(agents) : agents[i].enabled}
        active == {i \in enabled : AgentStatus(agents[i], now) = "active"}
    IN  [total_agents |-> Len(agents),
         active_agents |-> Cardinality(active),
         inactive_agents |-> Cardinality(enabled \ active),
         agent_status |->
             [id \in {agents[i].id : i \in enabled} |->
                 LET last == CHOOSE i \in enabled :
                                 /\ agents[i].id = id
                                 /\ \A j \in enabled : agents[j].id = id => j <= i
                 IN  AgentStatus(agents[last], now)]]

InitReport ==
    /\ TaskInit
    /\ backend \in Backends
    /\ config = NoConfig
    /\ store = {}
    /\ feed = << >>
    /\ \E agents \in AgentLists :
           probe = [phase |-> "in", agents |-> agents, now |-> MaxAge,
                    report |-> [total_agents |-> 0, active_agents |-> 0,
                                inactive_agents |-> 0, agent_status |-> << >>]]

\* The request of sync_router.py:180-191: the configuration is loaded and
\* the report is built; nothing is saved.
ReportAgentStatus ==
    /\ probe.phase = "in"
    /\ probe' = [probe EXCEPT !.phase = "out",
                              !.report = check_agent_heartbeats(probe.agents, probe.now)]
    /\ UNCHANGED <<backend, config, store, feed, active_syncs, pc, op, origin,
                   ctrl, cur, nested, cfg, loaded, idx, delegated, result,
                   effects, log, db, clock, ret>>

NextReport == ReportAgentStatus

SpecReport == InitReport /\ [][NextReport]_vars

(***************************************************************************)
(* sync_single_source called for configured and unknown ids over a stored  *)
(* configuration with two sources; a call starts when no other call is in  *)
(* flight, or for a source whose sync is in flight.                        *)
(***************************************************************************)
FrameIds == {"a", "b", "x"}

NextFrame ==
    \E t \in Tasks :
        \/ \E source_id \in FrameIds :
               /\ Idle \/ SingleGuard(active_syncs[GlobalController], source_id)
               /\ CallSyncSingle(t, "direct", source_id)
        \/ StepSingle(t)

SpecFrame == InitAll /\ [][NextFrame]_vars

(***************************************************************************)
(* Properties                                                              *)
(***************************************************************************)
SameController(t, u) == t # u /\ ctrl[t] = ctrl[u]

\* Task t is invoked in this step.
Invoked(t) == pc[t] = "init" /\ pc'[t] # "init"

\* The entries this step appends to a sequence-valued variable of task t.
NewOf(f, t) == SubSeq(f'[t], Len(f[t]) + 1, Len(f'[t]))

C1_AtMostOnePass ==
    \A t, u \in Tasks : (SameController(t, u) /\ InAll(t)) => ~InAll(u)

C1_InProgressDoesNothing ==
    \A t \in Tasks :
        (op[t].kind = "all" /\ result[t] = "in_progress")
            => /\ pc[t] = "done"
               /\ effects[t] = {}
               /\ log[t] = << >>
               /\ delegated[t] = << >>
               /\ cfg[t] = << >>

C1_Reentry ==
    \A t \in Tasks :
        (/\ Invoked(t)
         /\ op'[t].kind = "all"
         /\ \E u \in Tasks : u # t /\ ctrl[u] = ctrl'[t] /\ InAll(u))
            => /\ result'[t] = "in_progress"
               /\ pc'[t] = "done"
               /\ active_syncs' = active_syncs

\* C1: while a sync_all_calendars pass is running on a controller, another
\* invocation of sync_all_calendars on it is answered "in_progress" at once
\* and leaves the markers alone; an invocation answered "in_progress" loads
\* no configuration, delegates to no source, sends no request and records
\* no history; so no two passes run on one controller at a time.
Theorem_C1 ==
    /\ []C1_AtMostOnePass
    /\ []C1_InProgressDoesNothing
    /\ [][C1_Reentry]_vars

Witness_C1 ==
    \E t, u \in Tasks :
        /\ SameController(t, u)
        /\ InAll(u)
        /\ op[t].kind = "all"
        /\ result[t] = "in_progress"

C2_AtMostOneRun ==
    \A t, u \in Tasks :
        (SameController(t, u) /\ InSingle(t) /\ InSingle(u)) => cur[t] # cur[u]

C2_InProgressDoesNothing ==
    \A t \in Tasks :
        (op[t].kind = "single" /\ result[t] = "in_progress")
            => /\ pc[t] = "done"
               /\ effects[t] = {}
               /\ log[t] = << >>

C2_Reentry ==
    \A t \in Tasks :
        (Invoked(t) /\ op'[t].kind = "single")
            => LET others == {u \in Tasks \ {t} : ctrl[u] = ctrl'[t]}
               IN  /\ (\E u \in others : InSingle(u) /\ cur[u] = op'[t].id)
                          => /\ result'[t] = "in_progress"
                             /\ active_syncs' = active_syncs
                   /\ (/\ \A u \in others : ~InAll(u)
                       /\ \A u \in others : InSingle(u) => cur[u] # op'[t].id)
                          => /\ pc'[t] = "s_load"
                             /\ cur'[t] = op'[t].id

\* C2: while a sync_single_source run for a source id is in flight on a
\* controller, another invocation for that id on it is answered
\* "in_progress" without any storage or provider call, so no two runs for
\* one id are in flight at a time; with no sync_all_calendars pass on the
\* controller, an invocation for an id no run is in flight for gets past
\* the guard.
Theorem_C2 ==
    /\ []C2_AtMostOneRun
    /\ []C2_InProgressDoesNothing
    /\ [][C2_Reentry]_vars

Witness_C2 ==
    \E t, u \in Tasks :
        /\ SameController(t, u)
        /\ InSingle(u)
        /\ op[t] = [kind |-> "single", id |-> cur[u]]
        /\ result[t] = "in_progress"

\* C3: a run started by the periodic task and a run started by an API
\* request never both get past the guard of the same unit: not two
\* sync_all_calendars passes, not two runs for one source id.
C3_Claim ==
    \A t, u \in Tasks :
        (origin[t] = "periodic" /\ origin[u] = "api")
            => /\ ~(InAll(t) /\ InAll(u))
               /\ ~(InSingle(t) /\ InSingle(u) /\ cur[t] = cur[u])

C4_Independent ==
    \A t \in Tasks :
        LET others == {u \in Tasks \ {t} : ctrl[u] = ctrl'[t]}
        IN  /\ (Invoked(t) /\ result'[t] = "in_progress" /\ op'[t].kind = "single")
                   => \E u \in others : InSingle(u) /\ cur[u] = op'[t].id
            /\ (Invoked(t) /\ result'[t] = "in_progress" /\ op'[t].kind = "all")
                   => \E u \in others : InAll(u)
            /\ \A i \in 1..Len(NewOf(delegated, t)) :
                   NewOf(delegated, t)[i].res = "in_progress"
                       => \E u \in others :
                              InSingle(u) /\ cur[u] = NewOf(delegated, t)[i].id

\* C4: the global unit and the per-source units do not gate each other,
\* whatever the source id: an invocation of sync_single_source (top-level
\* or delegated by sync_all_calendars) is answered "in_progress" only when
\* a run for that id is in flight, and an invocation of sync_all_calendars
\* only when a pass is running.
C4_Claim == [][C4_Independent]_vars

C5_MarkersAreHeld ==
    \A c \in Controllers :
        active_syncs[c] =
            {SYNC_ALL : t \in {u \in Tasks : ctrl[u] = c /\ InAll(u)}}
            \cup {cur[t] : t \in {u \in Tasks : ctrl[u] = c /\ InSingle(u)}}

C5_Invocation ==
    \A t \in Tasks :
        Invoked(t)
            => /\ result'[t] = "in_progress" => active_syncs' = active_syncs
               /\ (\A u \in Tasks \ {t} :
                       ctrl[u] = ctrl'[t] => pc[u] \in {"init", "done"})
                      => result'[t] # "in_progress"

\* C5: a marker is in a controller's active set exactly while the
\* invocation that added it is running: return, exception and cancellation
\* all remove it; an invocation answered "in_progress" removes nothing; and
\* an invocation on a controller nothing is running on is never answered
\* "in_progress".
Theorem_C5 == []C5_MarkersAreHeld /\ [][C5_Invocation]_vars

Witness_C5 ==
    \E t, u \in Tasks :
        /\ SameController(t, u)
        /\ pc[t] = "done"
        /\ result[t] \in {"raised", "cancelled"}
        /\ op[t].kind = "all"
        /\ op[u] = op[t]
        /\ InAll(u)

ConfiguredDisabled(source_id) ==
    \E i \in 1..Len(config.sources) :
        config.sources[i].id = source_id /\ ~config.sources[i].enabled

C6_DisabledIsSkipped ==
    \A t \in Tasks :
        (op[t].kind = "single" /\ ConfiguredDisabled(op[t].id))
            => /\ effects[t] \subseteq {"load_config"}
               /\ log[t] = << >>
               /\ pc[t] = "done"
                     => result[t] \in {"skipped", "raised", "cancelled", "in_progress"}
               /\ result[t] = "raised" => pc[t] = "done" /\ effects[t] = {"load_config"}

\* C6: a sync_single_source invocation for a configured, disabled source
\* makes no acquisition call (provider fetch, agent cache, import data), no
\* destination read and no create or update request, whatever its
\* sync_method and the destination; once the configuration is loaded it
\* returns "skipped".
Theorem_C6 == C6_DisabledIsSkipped

Witness_C6 ==
    \E t \in Tasks :
        /\ op[t].kind = "single"
        /\ ConfiguredDisabled(op[t].id)
        /\ result[t] = "skipped"
        /\ feed # << >>

WritePhaseOf(t) ==
    /\ pc[t] = "s_fetch"
    /\ "write_phase" \in effects'[t]

CountCalls(calls, k, ev) ==
    Cardinality({i \in 1..Len(calls) : calls[i].k = k /\ calls[i].ev = ev})

C7_NoCreateForExisting ==
    \A t \in Tasks :
        \A e \in IdsOf(store) :
            /\ CountCalls(NewOf(log, t), "create", e) = 0
            /\ CountCalls(NewOf(log, t), "update", e)
                   <= Cardinality({i \in 1..Len(feed) : feed[i].id = e})

Instant(ev) == UpdatedOf(ev).t

\* C8: under latest_wins, with each side's timestamp being its updated_at,
\* else its created_at, else the oldest instant, an incoming event strictly
\* newer than the destination's event with its id gets an update request,
\* and one that is not newer gets no request.
C8_Claim ==
    (probe.phase = "out" /\ probe.resolution_strategy = "latest_wins")
        => /\ Instant(probe.source_event) > Instant(probe.destination_event)
                 => probe.outcome = "update"
           /\ Instant(probe.source_event) <= Instant(probe.destination_event)
                 => probe.outcome # "update"

C9_ByStrategy ==
    \A t \in Tasks :
        (/\ WritePhaseOf(t)
         /\ loaded[t].source.sync_direction = "read_only"
         /\ loaded[t].destination.provider_type = "google")
            => \A i \in 1..Len(feed) : \A x \in store :
                   x.id = feed[i].id
                       => LET n == CountCalls(NewOf(log, t), "update", x.id)
                              r == loaded[t].destination.conflict_resolution
                          IN  /\ r \in {"destination_wins", "manual"} => n = 0
                              /\ r = "source_wins" => (n > 0 <=> feed[i] # x)

\* C9: in a write phase for a read_only source and a google destination
\* that holds an event with an incoming event's id: destination_wins and
\* manual send no update request; source_wins sends one exactly when the
\* incoming event differs from the destination's.
C9_Claim == [][C9_ByStrategy]_vars

Acquired(t) == effects[t] \cap {"fetch", "agent_events", "import_data"} # {}

FirstRan(u) ==
    /\ pc[u] = "done"
    /\ result[u] \in {"completed", "raised"}
    /\ Acquired(u)

C10_SecondRunWritesNothing ==
    \A t \in Tasks :
        (/\ pc[t] = "s_fetch"
         /\ loaded[t].destination.conflict_resolution
                \in {"latest_wins", "destination_wins"}
         /\ \E u \in Tasks \ {t} : FirstRan(u) /\ op[u] = op[t])
            => log'[t] = log[t]

EnabledIds(sources) ==
    LET en == SelectSeq(sources, LAMBDA x : x.enabled)
    IN  [i \in 1..Len(en) |-> en[i].id]

\* The pass of task t loaded its configuration and entered the loop.
PassLoaded(t) == op[t].kind = "all" /\ idx[t] >= 1

C11_EverySourceAttempted ==
    \A t \in Tasks :
        (PassLoaded(t) /\ (pc[t] = "a_save" \/ "global_history" \in effects[t]))
            => /\ [i \in 1..Len(delegated[t]) |-> delegated[t][i].id]
                      = EnabledIds(cfg[t])
               /\ SourcesSynced(delegated[t]) + ErrorCount(delegated[t])
                      = Len(delegated[t])

C11_SavedUnlessCancelled ==
    \A t \in Tasks :
        (PassLoaded(t) /\ pc[t] = "done" /\ result[t] # "cancelled")
            => "global_history" \in effects[t]

C11_RaisesOnlyAtBoundary ==
    \A t \in Tasks :
        (op[t].kind = "all" /\ pc[t] = "done" /\ result[t] = "raised")
            => \/ idx[t] = 0 /\ effects[t] = {"load_config"}
               \/ "global_history" \in effects[t]

\* C11: once sync_all_calendars has loaded a configuration, a raising
\* sync_single_source never makes it raise: every enabled source is
\* attempted, in order, each attempt is counted either as synced or as one
\* error, and the pass goes on to save the aggregate result to the global
\* history; the pass raises only when load_configuration or the save of
\* the aggregate itself raises.
Theorem_C11 ==
    /\ C11_EverySourceAttempted
    /\ C11_SavedUnlessCancelled
    /\ C11_RaisesOnlyAtBoundary

Witness_C11 ==
    \E t \in Tasks :
        /\ op[t].kind = "all"
        /\ result[t] = "completed"
        /\ Len(delegated[t]) = 2
        /\ delegated[t][1].res = "raised"
        /\ delegated[t][2].res = "completed"

\* Nothing is stored, or the stored document has no destination.
C12_NothingLoadable ==
    \/ ~config.present
    \/ config.destination = NoDestination

C12_NothingDone ==
    \A t \in Tasks :
        (op[t].kind = "all" /\ C12_NothingLoadable)
            => /\ effects[t] \subseteq {"load_config"}
               /\ delegated[t] = << >>
               /\ log[t] = << >>
               /\ pc[t] \in {"a_load", "done"}

C12_Fails ==
    \A t \in Tasks :
        (op[t].kind = "all" /\ C12_NothingLoadable /\ pc[t] = "done")
            => result[t] \in {"raised", "in_progress", "cancelled"}

\* C12: with no stored configuration, or a stored document without a
\* destination, sync_all_calendars raises (unless answered "in_progress"
\* or cancelled first); it delegates to no source, makes no call besides
\* load_configuration and saves nothing to the global history.
Theorem_C12 == C12_NothingDone /\ C12_Fails

Witness_C12 ==
    \E t \in Tasks :
        /\ op[t].kind = "all"
        /\ result[t] = "raised"
        /\ config.present
        /\ config.destination = NoDestination
        /\ \E i \in 1..Len(config.sources) : config.sources[i].enabled

\* C13: a sync_single_source run that got as far as the write phase or as
\* persisting last_sync, and was not cancelled, has saved a per-source
\* result record, also when the write phase or the persisting raised.
C13_Claim ==
    \A t \in Tasks :
        (/\ op[t].kind = "single"
         /\ pc[t] = "done"
         /\ result[t] # "cancelled"
         /\ ("write_phase" \in effects[t] \/ "save_config" \in effects[t]))
            => "source_history" \in effects[t]

\* C14: after a completed sync_single_source of an api source whose fetch
\* returned a continuation token, the stored configuration holds that
\* token for the source (so that the next run passes it to the provider).
C14_Claim ==
    \A t \in Tasks :
        (/\ op[t].kind = "single"
         /\ pc[t] = "done"
         /\ result[t] = "completed"
         /\ loaded[t].source.sync_method = "api"
         /\ loaded[t].source.sync_tokens = "T")
            => \E i \in 1..Len(config.sources) :
                   /\ config.sources[i].id = op[t].id
                   /\ config.sources[i].sync_tokens = "T"

\* The age of the agent's last check-in, in seconds.
AgeOf(p) == p.now - p.agent.last_check_in

GraceSeconds(p) == p.agent.interval_minutes * SecondsPerMinute * GraceFactor

\* C17: check_agent_heartbeats reports an enabled agent active exactly
\* when it has checked in and the check-in is strictly less than
\* 2 x interval_minutes old, and inactive otherwise: never checked in,
\* exactly 2 x interval old, or older.
Theorem_C17 ==
    (probe.phase = "out" /\ probe.agent.enabled)
        => /\ probe.status \in {"active", "inactive"}
           /\ probe.status = "active"
                 <=> (/\ probe.agent.last_check_in # -1
                      /\ AgeOf(probe) < GraceSeconds(probe))

Witness_C17 ==
    /\ probe.phase = "out"
    /\ probe.agent.enabled
    /\ probe.agent.interval_minutes = MaxInterval
    /\ probe.agent.last_check_in # -1
    /\ AgeOf(probe) = GraceSeconds(probe)
    /\ probe.status = "inactive"

C15_OneEntryPerSave ==
    \A scope \in Scopes, b \in Backends :
        SaveResult(scope, "r1")
            => LET before == Len(db[b].history[scope])
                   after == Len(db'[b].history[scope])
               IN  before < HistoryCap(scope) => after = before + 1

\* C15: every completed save of a result record adds exactly one entry
\* to the history of its scope while the history is below its cap, on
\* either backend, also when the previous save was in the same second.
C15_Claim == [][C15_OneEntryPerSave]_vars

\* C20: after the same operations at the same times, a get gives back the
\* same value on the networked backend and on the file backend.
C20_Claim == ret["redis"] = ret["file"]

\* The agent configured on backend b, if there is one.
ConfiguredAgent(b, agent_id) ==
    /\ db[b].cfg # << >>
    /\ db[b].cfg[1].agent.id = agent_id

C16_Heartbeat ==
    \A agent_id \in Ids, data \in DataVals \cup {NoEvents}, b \in Backends :
        (RegisterAgentHeartbeat(agent_id, data) /\ ConfiguredAgent(b, agent_id))
            => LET key == <<"agent", agent_id>>
               IN  /\ load_configuration(b, db'[b]).status = "ok"
                   /\ load_configuration(b, db'[b]).value[1].agent.last_check_in
                          = DateTime(clock)
                   /\ IF data # NoEvents
                      THEN get_cache(b, db'[b], key, clock) = data
                      ELSE db'[b].cache[key] = db[b].cache[key]

\* C16: a heartbeat of a configured agent leaves, on either backend, the
\* agent's stored last_check_in at the current time, and the agent's
\* cached event list replaced by the payload's events field when there is
\* one and untouched when there is none.
C16_Claim == [][C16_Heartbeat]_vars

C18_Acquire ==
    \A source_id \in Ids, b \in Backends :
        (/\ GetEventsFromAgentCache(source_id)
         /\ ret[b].op = "heartbeat"
         /\ ret[b].status = "ok"
         /\ ret[b].data # NoEvents
         /\ clock - ret[b].at < ExpireSeconds
         /\ ConfiguredAgent(b, ret[b].agent)
         /\ db[b].cfg[1].source.id = source_id)
            => ret'[b].value = ret[b].data

\* C18: when the last operation was a successful heartbeat by which the
\* agent that serves source s delivered an event list less than the expiry
\* period ago, the events acquired for s are that list, whatever the
\* agent's id and the source's id are.
C18_Claim == [][C18_Acquire]_vars

C19_RoundTrip ==
    \A b \in Backends :
        (LoadConfiguration /\ ret[b].op = "save_configuration")
            => /\ ret[b].status = "ok"
               /\ ret'[b].status = "ok"
               /\ ret'[b].value = <<ret[b].doc>>

\* C19: save_configuration followed by load_configuration succeeds on
\* either backend and gives back the configuration that was saved, field
\* for field, timestamps included.
C19_Claim == [][C19_RoundTrip]_vars

\* The history of a scope on backend b from the oldest entry to the newest
\* (redis keeps the list newest first, storage.py:133; the file names sort
\* oldest first, storage.py:156).
OldestFirst(b, h) ==
    IF b = "redis" THEN [i \in 1..Len(h) |-> h[Len(h) + 1 - i]] ELSE h

\* The last n entries of a sequence.
MostRecent(h, n) == IF Len(h) > n THEN SubSeq(h, Len(h) - n + 1, Len(h)) ELSE h

C21_Retention ==
    \A scope \in Scopes, b \in Backends :
        SaveResult(scope, "r1")
            => LET before == OldestFirst(b, db[b].history[scope])
                   after == OldestFirst(b, db'[b].history[scope])
                   entry == [timestamp |-> clock, result |-> "r1"]
               IN  /\ Len(after) <= HistoryCap(scope)
                   /\ after = MostRecent(Append(before, entry), HistoryCap(scope))
                   /\ get_latest(b, db'[b], scope) = <<"r1">>

\* C21: a save of a result leaves, on either backend, a history of at most
\* the cap of its scope that holds the most recent saves, the new one
\* included and the earlier ones kept up to the cap, and a stored latest
\* result that is the one just saved.
C21_Claim == [][C21_Retention]_vars

\* C22: a manager constructed for redis whose server is unreachable at
\* initialize does not raise from initialize, and afterwards every save and
\* get succeeds and gives what a manager constructed for the file backend
\* gives.
C22_Claim ==
    probe.phase = "ready"
        => /\ probe.out["networked"].status = "ok"
           /\ probe.out["networked"] = probe.out["file"]

\* C23: with nothing stored, add_sync_source, add_sync_agent and
\* configure_destination succeed and leave a stored configuration, and
\* reading the configuration succeeds.
C23_Claim ==
    \A t \in Tasks :
        (/\ pc[t] = "done"
         /\ op[t].kind \in {"load", "add_source", "add_agent",
                            "configure_destination"}
         /\ cfg[t] = << >>)
            => result[t] = "ok" /\ config.present

UniqueIds(seq) ==
    \A i, j \in 1..Len(seq) : i # j => seq[i].id # seq[j].id

\* C24: whatever requests have been served one after the other, the
\* stored sources have pairwise different ids and so have the stored
\* agents.
C24_Claim == UniqueIds(config.sources) /\ UniqueIds(config.agents)

C25_LastWriterWins ==
    \A t \in Tasks :
        (/\ ConfigSave(t)
         /\ \/ cfg[t] # config
            \/ \E u \in Tasks \ {t} : pc[u] = "c_save")
            => result'[t] = "ok" /\ config' = loaded[t]

\* C25: a mutation that saves while another mutation has loaded and not
\* yet saved, or after another one has saved since it loaded, reports
\* success and leaves exactly its own document stored.
C25_Claim == [][C25_LastWriterWins]_vars

\* The calendars whose fetch was created and succeeded.
Succeeded(p) ==
    {k \in 1..Len(p.tasks) :
        /\ p.tasks[k].ok
        /\ p.tasks[k].provider = "exchange" => p.exchange_auth}

Elements(seq) == {seq[i] : i \in 1..Len(seq)}

\* C26: whichever fetches fail, get_all_events returns; the returned events
\* are those of the fetches that succeeded, each once, and a calendar whose
\* fetch failed has no event and no token in the result.
C26_Claim ==
    probe.phase = "out"
        => /\ probe.out.status = "ok"
           /\ Elements(probe.out.events)
                 = UNION {Elements(probe.tasks[k].events) : k \in Succeeded(probe)}
           /\ \A k \in 1..Len(probe.tasks) :
                  k \notin Succeeded(probe) => probe.out.syncTokens[k] = "None"

\* The position of an event in a sequence without repetitions.
PositionIn(seq, e) == CHOOSE i \in 1..Len(seq) : seq[i] = e

\* C27: the list get_all_events returns is ascending by start_time, and
\* events with equal start_time are in the order in which they were
\* merged.
Theorem_C27 ==
    (probe.phase = "out" /\ probe.out.status = "ok")
        => \A i, j \in 1..Len(probe.out.events) :
               i < j =>
                  LET a == probe.out.events[i]
                      b == probe.out.events[j]
                  IN  /\ a.start_time.t <= b.start_time.t
                      /\ a.start_time.t = b.start_time.t
                            => PositionIn(probe.merged, a) < PositionIn(probe.merged, b)

Witness_C27 ==
    /\ probe.phase = "out"
    /\ probe.out.status = "ok"
    /\ probe.out.events # probe.merged
    /\ \E i, j \in 1..Len(probe.out.events) :
           /\ i < j
           /\ probe.out.events[i].start_time.t = probe.out.events[j].start_time.t
           /\ probe.out.events[i].calendar # probe.out.events[j].calendar

\* The provider calls made without a token.
TokenlessAttempts(p) ==
    Cardinality({i \in 1..Len(p.calls) : p.calls[i].tokenless})

\* C28: a fetch given a stale token makes at most one attempt without the
\* token, and exactly one by the time it ends; a failure of that attempt
\* is reported, not retried.
C28_Claim ==
    probe.token = "stale"
        => /\ TokenlessAttempts(probe) <= 1
           /\ probe.phase = "done" => TokenlessAttempts(probe) = 1

C29_Iteration ==
    /\ probe'.syncs > probe.syncs
           => probe.phase = "interval_sleep" /\ probe.remaining = 0
    /\ /\ Len(probe'.printed) > Len(probe.printed)
       /\ probe'.printed[Len(probe'.printed)] = "sync_error"
           => /\ probe'.phase = "backoff_sleep"
              /\ probe'.remaining * SecondsPerMinute = BackoffSeconds

\* C29: the periodic task starts a sync only when a whole interval has
\* been slept, and a failed sync is logged and followed by the 60-second
\* backoff sleep, never by the end of the task.
C29_Claim == [][C29_Iteration]_vars

C30_NoFurtherWork ==
    probe.phase = "ended" \/ probe.must_cancel
        => /\ probe'.syncs = probe.syncs
           /\ probe'.calls = probe.calls
           /\ probe'.phase \in {probe.phase, "ended"}

\* C30: once shutdown has cancelled the periodic task, the task starts no
\* sync and issues no call, it ends when the cancellation is delivered,
\* whichever await it is suspended at, and shutdown's wait completes.
Theorem_C30 ==
    /\ [][C30_NoFurtherWork]_vars
    /\ (probe.shutdown = "waiting") ~> (probe.shutdown = "complete")

\* Shutdown completed after a cancellation delivered inside a sync.
Witness_C30 ==
    /\ probe.shutdown = "complete"
    /\ probe.phase = "ended"
    /\ probe.at > 0
    /\ probe.calls > 0

\* The sources a pass has handed to sync_single_source so far, in order:
\* the calls that came back and the one in flight.
HandedOver(t) ==
    [i \in 1..Len(delegated[t]) |-> delegated[t][i].id]
        \o (IF InSingle(t) THEN <<cur[t]>> ELSE << >>)

\* The position of the first source with this id in a list, 0 if none.
PositionOfId(sources, id) ==
    LET hits == {i \in 1..Len(sources) : sources[i].id = id}
    IN  IF hits = {} THEN 0 ELSE CHOOSE i \in hits : \A j \in hits : i <= j

C31_InOrder ==
    \A t \in Tasks :
        op[t].kind = "all" /\ idx[t] >= 1
            => LET enabled == SelectSeq(cfg[t], LAMBDA x : x.enabled)
                   handed == HandedOver(t)
               IN  /\ Len(handed) <= Len(enabled)
                   /\ \A i \in 1..Len(handed) : handed[i] = enabled[i].id
                   /\ \A i \in 1..Len(delegated[t]) :
                          delegated[t][i].res
                              \in {"completed", "skipped", "raised", "in_progress"}

C31_WritesInOrder ==
    \A t \in Tasks :
        op[t].kind = "all"
            => \A i, j \in 1..Len(log[t]) :
                   i < j => PositionOfId(cfg[t], log[t][i].src)
                                <= PositionOfId(cfg[t], log[t][j].src)

\* C31: at every moment of a sync_all_calendars pass, the sources handed to
\* sync_single_source so far are the first enabled sources of the loaded
\* configuration, in order, each earlier one having returned or raised
\* before the next was handed over; the requests sent to the destination
\* follow the same order, and no disabled source is handed over.
Theorem_C31 == C31_InOrder /\ C31_WritesInOrder

Witness_C31 ==
    \E t \in Tasks :
        /\ op[t].kind = "all"
        /\ InSingle(t)
        /\ cur[t] = "b"
        /\ ~cfg[t][1].enabled
        /\ delegated[t] = << >>

\* C32: a sync_single_source run for a source whose sync_method is api and
\* whose provider type has no api acquisition path does not end
\* "completed".
C32_Claim ==
    \A t \in Tasks :
        /\ op[t].kind = "single"
        /\ pc[t] = "done"
        /\ \E i \in 1..Len(config.sources) :
               /\ config.sources[i].id = op[t].id
               /\ config.sources[i].sync_method = "api"
               /\ config.sources[i].provider_type \notin {"google", "microsoft"}
        => result[t] # "completed"

\* C33: when the loop over a batch has ended, every event of the batch was
\* answered (a success, a failure or nothing to do), and the recorded error
\* messages are as many as failure_count, one per failed event, each
\* naming the event's id.
C33_Claim ==
    probe.phase = "out"
        => /\ probe.out.success_count + probe.out.failure_count <= Len(probe.events)
           /\ Len(probe.out.errors) = probe.out.failure_count
           /\ \A i \in 1..Len(probe.out.errors) :
                  \E j \in 1..Len(probe.events) :
                      probe.events[j].id = probe.out.errors[i]

\* C34: a sync_single_source run that entered the write phase determined
\* the target calendar and went on to fetch the existing events of that
\* calendar.
C34_Claim ==
    \A t \in Tasks :
        "write_phase" \in effects[t] => "get_existing" \in effects[t]

\* The request just answered named an id the stored document does not hold.
UnknownIdRequest ==
    /\ probe'.last.route
           \in {"update_source", "remove_source", "sync_single_source", "agent_heartbeat"}
    /\ probe.present
    /\ probe'.last.id \notin (IF probe'.last.route = "agent_heartbeat"
                              THEN probe.agents ELSE probe.sources)

C35_Rejected ==
    UnknownIdRequest
        => /\ probe'.last.status \in 400..499
           /\ StoredState(probe') = StoredState(probe)

\* C35: a request that names a source id (update, remove, single sync) or
\* an agent id (heartbeat) the stored configuration does not hold is
\* answered with a 4xx status, and nothing stored changes: not the
\* configuration, the agent-event caches or the result histories.
Theorem_C35 == [][C35_Rejected]_vars

Witness_C35 ==
    /\ probe.last.route = "agent_heartbeat"
    /\ probe.last.id = "x"
    /\ probe.last.status = 404
    /\ probe.agents # {}
    /\ probe.cache # {}

C36_CreatePerEvent ==
    \A t \in Tasks :
        (/\ WritePhaseOf(t)
         /\ loaded[t].source.sync_direction = "read_only"
         /\ loaded[t].destination.provider_type = "google")
            => /\ "get_existing" \in effects'[t]
               /\ \A i \in 1..Len(feed) :
                      feed[i].id \notin IdsOf(store)
                          => CountCalls(NewOf(log, t), "create", feed[i].id)
                                 = Cardinality({j \in 1..Len(feed) :
                                                  feed[j].id = feed[i].id})

\* C36: a write phase for a read_only source and a google destination
\* fetches the existing events, once, before the first event, and sends one
\* create request for every incoming event whose id that snapshot lacks,
\* also when an earlier event of the batch had the same id.
C36_Claim == [][C36_CreatePerEvent]_vars

C38_GoesOn ==
    \A t \in Tasks : WritePhaseOf(t) => pc'[t] = "s_upd_load"

\* C38: whatever the fetch of the destination's existing events does, the
\* write phase returns and the run goes on to persist last_sync and to
\* complete.
C38_Claim == [][C38_GoesOn]_vars

C37_Counts ==
    \A t \in Tasks :
        (op[t].kind = "all" /\ pc[t] = "done" /\ result[t] = "completed")
            => LET dl == delegated[t]
               IN  /\ SourcesSynced(dl) + ErrorCount(dl)
                          = Cardinality({i \in 1..Len(cfg[t]) : cfg[t][i].enabled})
                   /\ SourcesSynced(dl)
                          = Cardinality({i \in 1..Len(dl) :
                                dl[i].res \in {"completed", "skipped", "in_progress"}})
                   /\ \A i \in 1..Len(dl) :
                          dl[i].res # "raised"
                              => \A j \in 1..Len(log[t]) : log[t][j].src # dl[i].id

C40_Report ==
    probe'.phase = "out"
        => LET agents == probe.agents
               r == probe'.report
               enabledIds == {agents[i].id : i \in {j \in 1..Len(agents) : agents[j].enabled}}
           IN  /\ r.total_agents = Len(agents)
               /\ r.active_agents + r.inactive_agents
                      = Cardinality({i \in 1..Len(agents) : agents[i].enabled})
               /\ DOMAIN r.agent_status = enabledIds
               /\ Cardinality(DOMAIN r.agent_status) = r.active_agents + r.inactive_agents
               /\ probe'.agents = agents
               /\ db' = db
               /\ config' = config

\* C40: a check_agent_heartbeats report counts every configured agent in
\* total_agents, every enabled agent once as active or inactive, has one
\* agent_status entry per enabled agent and none for a disabled one, and
\* the call leaves what is stored as it was.
Theorem_C40 == [][C40_Report]_vars

Witness_C40 ==
    /\ probe.phase = "out"
    /\ Len(probe.agents) = 2
    /\ probe.agents[1].enabled
    /\ ~probe.agents[2].enabled
    /\ probe.report.total_agents = 2
    /\ probe.report.active_agents = 1

\* The stored configuration changes only in a step that persists
\* last_sync, and then only in that field of the source being synced.
C39_OnlyLastSync ==
    config' # config
        => \E t \in Tasks :
               /\ pc[t] = "s_upd_save"
               /\ \E i \in 1..Len(config.sources) :
                      /\ config.sources[i].id = cur[t]
                      /\ config' = [config EXCEPT
                                       !.sources[i].last_sync = config'.sources[i].last_sync]

\* The call was answered "skipped" or "in_progress", or named no source.
AnsweredWithoutSync(t) ==
    /\ op[t].kind = "single"
    /\ pc[t] = "done"
    /\ \/ result[t] \in {"skipped", "in_progress"}
       \/ /\ result[t] = "raised"
          /\ \A i \in 1..Len(config.sources) : config.sources[i].id # op[t].id

C39_NoWrite ==
    \A t \in Tasks :
        AnsweredWithoutSync(t)
            => /\ effects[t] \subseteq {"load_config"}
               /\ log[t] = << >>

\* C39: a sync_single_source call changes, of the stored configuration,
\* only last_sync of the source it syncs; a call answered "skipped" or
\* "in_progress", or rejected for an unknown id, writes no configuration
\* and no history entry.
Theorem_C39 == [][C39_OnlyLastSync]_vars /\ []C39_NoWrite

Witness_C39 ==
    /\ Len(config.sources) = 2
    /\ config.sources[2].last_sync = "set"
    /\ config.sources[1].last_sync = "None"
    /\ \E t \in Tasks : AnsweredWithoutSync(t) /\ result[t] = "in_progress"

====
